---- MODULE Spec2Model ----
(***************************************************************************)
(* Model of the normalizer provider: the mapping model (MappingElements),  *)
(* the value codec (prepare_value), the flattener (flatten), the recursive *)
(* normalizer (normalize) of operators/utils.py, and the batch             *)
(* orchestrator (NormalizerOperator.execute / initialize / normalize) of   *)
(* operators/normalizer.py.                                                *)
(*                                                                         *)
(* A Python str is a sequence of one-character strings, so that replace,   *)
(* split, strip, `in` and concatenation are computed as Python computes    *)
(* them.  A Python value is a record tagged with its type.  A dict is the  *)
(* sequence of its (key, value) pairs in insertion order.                  *)
(***************************************************************************)
EXTENDS Integers, Sequences, FiniteSets, TLC

----------------------------------------------------------------------------
(* Python str operations *)

\* s[i:i+len(sub)] == sub
StartsAt(s, sub, i) ==
    /\ i + Len(sub) - 1 <= Len(s)
    /\ SubSeq(s, i, i + Len(sub) - 1) = sub

\* `sub in s`
Contains(s, sub) == \E i \in 1..(Len(s) + 1) : StartsAt(s, sub, i)

RECURSIVE ReplaceFrom(_, _, _, _)
ReplaceFrom(s, old, new, i) ==
    IF i > Len(s) THEN <<>>
    ELSE IF StartsAt(s, old, i)
         THEN new \o ReplaceFrom(s, old, new, i + Len(old))
         ELSE <<s[i]>> \o ReplaceFrom(s, old, new, i + 1)

\* s.replace(old, new), old non-empty: every non-overlapping occurrence, left to right
str_replace(s, old, new) == ReplaceFrom(s, old, new, 1)

RECURSIVE SplitFrom(_, _, _, _)
SplitFrom(s, c, i, cur) ==
    IF i > Len(s) THEN <<cur>>
    ELSE IF s[i] = c
         THEN <<cur>> \o SplitFrom(s, c, i + 1, <<>>)
         ELSE SplitFrom(s, c, i + 1, Append(cur, s[i]))

\* s.split(c) for a one-character separator
str_split(s, c) == SplitFrom(s, c, 1, <<>>)

RECURSIVE str_join(_, _)
\* sep.join(parts)
str_join(sep, parts) ==
    IF Len(parts) = 0 THEN <<>>
    ELSE IF Len(parts) = 1 THEN parts[1]
    ELSE parts[1] \o sep \o str_join(sep, Tail(parts))

\* s.count(c)
str_count(s, c) == Cardinality({i \in 1..Len(s) : s[i] = c})

\* s.strip(chars)
str_strip(s, chars) ==
    LET keep == {i \in 1..Len(s) : s[i] \notin chars}
    IN  IF keep = {} THEN <<>>
        ELSE SubSeq(s, CHOOSE i \in keep : \A j \in keep : i <= j,
                       CHOOSE i \in keep : \A j \in keep : j <= i)

LowerChar(c) ==
    CASE c = "D" -> "d"
      [] c = "F" -> "f"
      [] c = "I" -> "i"
      [] c = "S" -> "s"
      [] c = "T" -> "t"
      [] OTHER -> c

\* s.lower()
str_lower(s) == [i \in 1..Len(s) |-> LowerChar(s[i])]

Digit(d) == <<"0", "1", "2", "3", "4", "5", "6", "7", "8", "9">>[d + 1]

RECURSIVE NatToStr(_)
NatToStr(n) == IF n < 10 THEN <<Digit(n)>> ELSE Append(NatToStr(n \div 10), Digit(n % 10))

\* str(n) of an int
IntToStr(n) == IF n < 0 THEN <<"-">> \o NatToStr(0 - n) ELSE NatToStr(n)

RECURSIVE ZeroPad(_, _)
\* "%0<w>d" % n
ZeroPad(n, w) == IF Len(NatToStr(n)) >= w THEN NatToStr(n) ELSE <<"0">> \o ZeroPad(n, w - 1)

----------------------------------------------------------------------------
(* Python values.  Values nested in a list or dict are JSON data (None,    *)
(* bool, int, str, list, dict); a datetime only occurs as a whole cell.    *)

PyNone == [t |-> "None"]
PyBool(b) == [t |-> "bool", v |-> b]
PyInt(n) == [t |-> "int", v |-> n]
PyStr(s) == [t |-> "str", v |-> s]
PyList(xs) == [t |-> "list", v |-> xs]
\* pairs: <<key, value>>, keys distinct, in insertion order
PyDict(pairs) == [t |-> "dict", v |-> pairs]
\* d = <<year, month, day, hour, minute, second, microsecond>>
PyDatetime(d) == [t |-> "datetime", v |-> d]
\* an exception leaving the function instead of a value
Raise(e) == [t |-> "raise", v |-> e]
IsRaise(x) == x.t = "raise"

\* bool(value)
Truthy(x) ==
    CASE x.t = "None" -> FALSE
      [] x.t = "bool" -> x.v
      [] x.t = "int" -> x.v # 0
      [] x.t \in {"str", "list", "dict"} -> Len(x.v) > 0
      [] OTHER -> TRUE

\* dict lookups and updates on the pair sequence
dict_keys(d) == [i \in 1..Len(d) |-> d[i][1]]
dict_values(d) == [i \in 1..Len(d) |-> d[i][2]]
dict_has(d, k) == \E i \in 1..Len(d) : d[i][1] = k
dict_at(d, k) == d[CHOOSE i \in 1..Len(d) : d[i][1] = k][2]
\* d.get(k): None when the key is absent
dict_get(d, k) == IF dict_has(d, k) THEN dict_at(d, k) ELSE PyNone
\* d[k] = v: the value replaced in place, or the pair appended
dict_set(d, k, v) ==
    IF dict_has(d, k)
    THEN [i \in 1..Len(d) |-> IF d[i][1] = k THEN <<k, v>> ELSE d[i]]
    ELSE Append(d, <<k, v>>)

RECURSIVE dict_update(_, _)
\* d.update(items) and dict(items)
dict_update(d, items) ==
    IF Len(items) = 0 THEN d
    ELSE dict_update(dict_set(d, items[1][1], items[1][2]), Tail(items))

RECURSIVE str_concat(_)
\* ''.join(parts); also list concatenation (items.extend)
str_concat(parts) == IF Len(parts) = 0 THEN <<>> ELSE parts[1] \o str_concat(Tail(parts))

RECURSIVE select_where(_, _, _)
\* [xs[i] for i in range(len(xs)) if i in keep], from index i on
select_where(xs, keep, i) ==
    IF i > Len(xs) THEN <<>>
    ELSE (IF i \in keep THEN <<xs[i]>> ELSE <<>>) \o select_where(xs, keep, i + 1)

\* x in xs, for a list
InList(x, xs) == \E i \in 1..Len(xs) : xs[i] = x

\* repr(s) of a str
repr_str(s) ==
    LET q == IF Contains(s, <<"'">>) /\ ~Contains(s, <<"\"">>) THEN "\"" ELSE "'"
        esc == str_replace(str_replace(s, <<"\\">>, <<"\\", "\\">>), <<q>>, <<"\\", q>>)
    IN  <<q>> \o esc \o <<q>>

RECURSIVE py_repr(_)
\* repr(value) of JSON data
py_repr(x) ==
    CASE x.t = "None" -> <<"N", "o", "n", "e">>
      [] x.t = "bool" -> IF x.v THEN <<"T", "r", "u", "e">> ELSE <<"F", "a", "l", "s", "e">>
      [] x.t = "int" -> IntToStr(x.v)
      [] x.t = "str" -> repr_str(x.v)
      [] x.t = "list" ->
            <<"[">> \o str_join(<<",", " ">>, [i \in 1..Len(x.v) |-> py_repr(x.v[i])]) \o <<"]">>
      [] x.t = "dict" ->
            <<"{">> \o str_join(<<",", " ">>,
                [i \in 1..Len(x.v) |-> repr_str(x.v[i][1]) \o <<":", " ">> \o py_repr(x.v[i][2])])
            \o <<"}">>

\* value.strftime("%Y-%m-%d %H:%M:%S")
strftime_seconds(d) ==
    ZeroPad(d[1], 4) \o <<"-">> \o ZeroPad(d[2], 2) \o <<"-">> \o ZeroPad(d[3], 2) \o <<" ">>
    \o ZeroPad(d[4], 2) \o <<":">> \o ZeroPad(d[5], 2) \o <<":">> \o ZeroPad(d[6], 2)

\* value.strftime("%Y-%m-%d %H:%M:%S.%f")
strftime_micros(d) == strftime_seconds(d) \o <<".">> \o ZeroPad(d[7], 6)

\* str(value)
py_str(x) ==
    CASE x.t = "str" -> x.v
      [] x.t = "datetime" -> IF x.v[7] = 0 THEN strftime_seconds(x.v) ELSE strftime_micros(x.v)
      [] OTHER -> py_repr(x)

\* a str inside json.dumps(..., ensure_ascii=False)
json_str(s) ==
    <<"\"">> \o str_replace(str_replace(s, <<"\\">>, <<"\\", "\\">>), <<"\"">>, <<"\\", "\"">>)
    \o <<"\"">>

RECURSIVE json_dumps(_)
\* json.dumps(value, ensure_ascii=False) of JSON data
json_dumps(x) ==
    CASE x.t = "None" -> <<"n", "u", "l", "l">>
      [] x.t = "bool" -> IF x.v THEN <<"t", "r", "u", "e">> ELSE <<"f", "a", "l", "s", "e">>
      [] x.t = "int" -> IntToStr(x.v)
      [] x.t = "str" -> json_str(x.v)
      [] x.t = "list" ->
            <<"[">> \o str_join(<<",", " ">>, [i \in 1..Len(x.v) |-> json_dumps(x.v[i])]) \o <<"]">>
      [] x.t = "dict" ->
            <<"{">> \o str_join(<<",", " ">>,
                [i \in 1..Len(x.v) |-> json_str(x.v[i][1]) \o <<":", " ">> \o json_dumps(x.v[i][2])])
            \o <<"}">>

----------------------------------------------------------------------------
(* utils.py: the value codec *)

S_timestamp == <<"t", "i", "m", "e", "s", "t", "a", "m", "p">>
S_datetime64 == <<"d", "a", "t", "e", "t", "i", "m", "e", "6", "4">>
S_datetime == <<"d", "a", "t", "e", "t", "i", "m", "e">>
S_date == <<"d", "a", "t", "e">>
S_NULL == <<"N", "U", "L", "L">>

\* isinstance(value, datetime): `datetime` is the module bound by `import datetime`,
\* not a type, so the call raises TypeError for every value
isinstance_datetime(value) == Raise("TypeError")

\* value.replace("\\", "\\\\").replace("'", "''") wrapped in single quotes
quote_text(s) ==
    <<"'">> \o str_replace(str_replace(s, <<"\\">>, <<"\\", "\\">>), <<"'">>, <<"'", "'">>)
    \o <<"'">>

\* The k-th `if` statement of prepare_value applied to the current value:
\* fired tells whether its body ran, val is the value afterwards (or the exception).
prepare_step(k, value, cast) ==
    CASE k = 1 ->
            IF (cast = S_timestamp \/ cast = S_datetime64) /\ Truthy(value)
            THEN [fired |-> TRUE,
                  val |-> IF value.t = "datetime" THEN PyStr(strftime_micros(value.v))
                          ELSE Raise("AttributeError")]
            ELSE [fired |-> FALSE, val |-> value]
      [] k = 2 ->
            IF cast = S_datetime /\ Truthy(value)
            THEN LET isdt == isinstance_datetime(value)
                 IN  IF IsRaise(isdt) THEN [fired |-> FALSE, val |-> isdt]
                     ELSE IF isdt.v THEN [fired |-> TRUE, val |-> PyStr(strftime_seconds(value.v))]
                     ELSE [fired |-> FALSE, val |-> value]
            ELSE [fired |-> FALSE, val |-> value]
      [] k = 3 ->
            IF cast = S_date /\ Truthy(value)
            THEN [fired |-> TRUE, val |-> PyStr(py_str(value))]
            ELSE [fired |-> FALSE, val |-> value]
      [] k = 4 ->
            IF value.t = "list" \/ value.t = "dict"
            THEN [fired |-> TRUE, val |-> PyStr(json_dumps(value))]
            ELSE [fired |-> FALSE, val |-> value]
      [] k = 5 ->
            IF value.t = "bool"
            THEN [fired |-> TRUE, val |-> PyStr(str_lower(py_str(value)))]
            ELSE [fired |-> FALSE, val |-> value]
      [] k = 6 ->
            IF value.t = "str"
            THEN [fired |-> TRUE, val |-> PyStr(quote_text(value.v))]
            ELSE [fired |-> FALSE, val |-> value]
      [] k = 7 ->
            IF value.t = "int"
            THEN [fired |-> TRUE, val |-> PyStr(py_str(value))]
            ELSE [fired |-> FALSE, val |-> value]
      [] k = 8 ->
            IF value.t = "None"
            THEN [fired |-> TRUE, val |-> PyStr(S_NULL)]
            ELSE [fired |-> FALSE, val |-> value]

RECURSIVE prepare_from(_, _, _, _)
\* the rest of prepare_value after the k-th `if` gave `step`
prepare_next(k, step, cast, fired) ==
    prepare_from(k + 1, step.val, cast, IF step.fired THEN Append(fired, k) ELSE fired)

\* the `if` statements k..8 in sequence, each on the result of the one before
prepare_from(k, value, cast, fired) ==
    IF k > 8 \/ IsRaise(value) THEN [val |-> value, fired |-> fired]
    ELSE prepare_next(k, prepare_step(k, value, cast), cast, fired)

\* prepare_value with the list of the rules whose body ran
prepare_trace(value, cast) == prepare_from(1, value, cast, <<>>)

prepare_value(value, cast) == prepare_trace(value, cast).val

----------------------------------------------------------------------------
(* utils.py: key parsing, the flattener, the mapping model *)

\* key.split("[")[0].strip("[]") if "[" in key else key
get_table(key) ==
    IF Contains(key, <<"[">>) THEN str_strip(str_split(key, "[")[1], {"[", "]"}) ELSE key

\* key.split("[")[1].strip("[]") if "[" in key else None
get_fields(key) ==
    IF Contains(key, <<"[">>) THEN PyStr(str_strip(str_split(key, "[")[2], {"[", "]"}))
    ELSE PyNone

RECURSIVE flatten(_, _, _)
flatten(dictionary, parent_key, delim) ==
    LET items(i) ==
            LET key == dictionary[i][1]
                value == dictionary[i][2]
                child_key == IF Len(parent_key) > 0 THEN parent_key \o delim \o key ELSE key
            IN  IF value.t = "dict" THEN flatten(value.v, child_key, delim)
                ELSE << <<child_key, value>> >>
    IN  dict_update(<<>>, str_concat([i \in 1..Len(dictionary) |-> items(i)]))

\* as MappingElements, the list of types in the reverse of the declaration order
MappingElements_types_reversed(translation) ==
    IF translation.t # "dict" THEN Raise("AttributeError")
    ELSE IF Len(translation.v) = 0 THEN Raise("IndexError")
    ELSE
    LET destination == translation.v[1][1]
        parts == str_split(destination, ".")
        table == parts[Len(parts)]
        mapping == translation.v[1][2]
    IN  IF mapping.t # "dict" THEN Raise("AttributeError")
        ELSE
        LET original == dict_keys(mapping.v)
            fieldset == dict_values(mapping.v)
            n == Len(fieldset)
        IN  IF \E i \in 1..n : fieldset[i].t # "dict" THEN Raise("AttributeError")
            ELSE IF \E i \in 1..n : \E j \in 1..Len(fieldset[i].v) : fieldset[i].v[j][2].t # "str"
                 THEN Raise("TypeError")
            ELSE
            LET names(x) == str_concat(dict_keys(x.v))
                kinds(x) == str_concat([j \in 1..Len(x.v) |-> x.v[j][2].v])
            IN  [t |-> "MappingElements",
                 destination |-> destination,
                 table |-> table,
                 mapping |-> mapping.v,
                 original |-> original,
                 fieldset |-> fieldset,
                 fields |-> [i \in 1..n |-> names(fieldset[i])],
                 types |-> [i \in 1..n |-> str_lower(kinds(fieldset[n + 1 - i]))],
                 definition |-> [i \in 1..n |-> names(fieldset[i]) \o <<" ">> \o kinds(fieldset[i])],
                 uniques |-> select_where(fieldset,
                                {i \in 1..n : Contains(original[i], <<"*">>)}, 1),
                 has_uniques |-> Contains(str_concat(original), <<"*">>)]

\* MappingElements.__init__: the descriptor, or the exception the constructor raises
MappingElements(translation) ==
    IF translation.t # "dict" THEN Raise("AttributeError")
    ELSE IF Len(translation.v) = 0 THEN Raise("IndexError")
    ELSE
    LET destination == translation.v[1][1]
        parts == str_split(destination, ".")
        table == parts[Len(parts)]
        mapping == translation.v[1][2]
    IN  IF mapping.t # "dict" THEN Raise("AttributeError")
        ELSE
        LET original == dict_keys(mapping.v)
            fieldset == dict_values(mapping.v)
            n == Len(fieldset)
        IN  IF \E i \in 1..n : fieldset[i].t # "dict" THEN Raise("AttributeError")
            ELSE IF \E i \in 1..n : \E j \in 1..Len(fieldset[i].v) : fieldset[i].v[j][2].t # "str"
                 THEN Raise("TypeError")
            ELSE
            LET names(x) == str_concat(dict_keys(x.v))
                kinds(x) == str_concat([j \in 1..Len(x.v) |-> x.v[j][2].v])
            IN  [t |-> "MappingElements",
                 destination |-> destination,
                 table |-> table,
                 mapping |-> mapping.v,
                 original |-> original,
                 fieldset |-> fieldset,
                 fields |-> [i \in 1..n |-> names(fieldset[i])],
                 types |-> [i \in 1..n |-> str_lower(kinds(fieldset[i]))],
                 definition |-> [i \in 1..n |-> names(fieldset[i]) \o <<" ">> \o kinds(fieldset[i])],
                 uniques |-> select_where(fieldset,
                                {i \in 1..n : Contains(original[i], <<"*">>)}, 1),
                 has_uniques |-> Contains(str_concat(original), <<"*">>)]

----------------------------------------------------------------------------
(* utils.py: the recursive normalizer.  buffers, ids and mappings are      *)
(* dicts; mem = [buffers, ids, err] is the memory the call works on: the   *)
(* two dicts it mutates in place and the exception that left it ("none"    *)
(* while it runs).  An exception keeps what was mutated before it.         *)

DefaultDelim == <<"_", "_">>

Fail(mem, e) == [mem EXCEPT !.err = e]

\* the literal of one row: "(" + ", ".join(values) + ")"
row_literal(values) == <<"(">> \o str_join(<<",", " ">>, values) \o <<")">>

RECURSIVE normalize(_, _, _, _, _, _, _)
RECURSIVE normalize_fields(_, _, _, _, _, _, _, _)
RECURSIVE normalize_documents(_, _, _, _, _, _, _, _, _)

\* one field of one document: its value prepared and collected, and the recursion
\* into the child table when the raw value is a non-empty list of a nested key
normalize_field(i, flat_document, mem, values, mappings, parent_key, nested_keys, id, key, value, prepared) ==
    IF IsRaise(prepared) THEN [mem |-> Fail(mem, prepared.v), values |-> values]
    ELSE normalize_fields(i + 1, flat_document,
            IF Truthy(value) /\ value.t = "list" /\ InList(key, nested_keys)
            THEN normalize(value.v, mem, mappings, parent_key \o <<".">> \o key, id,
                           IF dict_has(mem.ids, parent_key \o <<".">> \o key)
                           THEN dict_at(mem.ids, parent_key \o <<".">> \o key) ELSE 0,
                           DefaultDelim)
            ELSE mem,
            Append(values, prepared), mappings, parent_key, nested_keys, id)

\* the field of index i of `mapping` for the flattened document
normalize_origin(i, flat_document, mem, values, mappings, parent_key, nested_keys, id, mapping, value) ==
    normalize_field(i, flat_document, mem, values, mappings, parent_key, nested_keys, id,
                    mapping.fields[i], value, prepare_value(value, mapping.types[i]))

\* the loop over mapping.fields from field i on, for one document with surrogate id
\* `id`: [mem, values]
normalize_fields(i, flat_document, mem, values, mappings, parent_key, nested_keys, id) ==
    IF mem.err # "none" \/ i > Len(dict_at(mappings, parent_key).fields)
    THEN [mem |-> mem, values |-> values]
    ELSE normalize_origin(i, flat_document, mem, values, mappings, parent_key, nested_keys, id,
                          dict_at(mappings, parent_key),
                          dict_get(flat_document, dict_at(mappings, parent_key).original[i]))

\* normalize_append with the row's own id written as its foreign key
normalize_append_own(n, documents, done, mappings, parent_key, nested_keys, fk, id, delim) ==
    IF done.mem.err # "none" THEN [mem |-> done.mem, id |-> id]
    ELSE normalize_documents(n + 1, documents,
            [done.mem EXCEPT !.buffers =
                dict_set(done.mem.buffers, parent_key,
                    Append(dict_at(done.mem.buffers, parent_key),
                           row_literal((IF fk # 0 THEN <<IntToStr(id)>> ELSE <<>>)
                                       \o <<IntToStr(id)>>
                                       \o [j \in 1..Len(done.values) |-> done.values[j].v]))),
                         !.order = Append(@, [key |-> parent_key, id |-> id, fk |-> fk])],
            mappings, parent_key, nested_keys, fk, id, delim)

\* normalize_append with the foreign key written for every row, also when fk is 0
normalize_append_with_fk(n, documents, done, mappings, parent_key, nested_keys, fk, id, delim) ==
    IF done.mem.err # "none" THEN [mem |-> done.mem, id |-> id]
    ELSE IF \E j \in 1..Len(done.values) : done.values[j].t # "str"
    THEN [mem |-> Fail(done.mem, "TypeError"), id |-> id]
    ELSE normalize_documents(n + 1, documents,
            [done.mem EXCEPT !.buffers =
                dict_set(done.mem.buffers, parent_key,
                    Append(dict_at(done.mem.buffers, parent_key),
                           row_literal(<<IntToStr(fk)>>
                                       \o <<IntToStr(id)>>
                                       \o [j \in 1..Len(done.values) |-> done.values[j].v]))),
                         !.order = Append(@, [key |-> parent_key, id |-> id, fk |-> fk])],
            mappings, parent_key, nested_keys, fk, id, delim)

\* the row of one document appended to the buffer of parent_key: the foreign key (when
\* fk is non-zero), the id, the prepared values; done = [mem, values] of its fields;
\* mem.order lists the appends to all buffers in the order they are made
normalize_append(n, documents, done, mappings, parent_key, nested_keys, fk, id, delim) ==
    IF done.mem.err # "none" THEN [mem |-> done.mem, id |-> id]
    ELSE IF \E j \in 1..Len(done.values) : done.values[j].t # "str"
    THEN [mem |-> Fail(done.mem, "TypeError"), id |-> id]
    ELSE normalize_documents(n + 1, documents,
            [done.mem EXCEPT !.buffers =
                dict_set(done.mem.buffers, parent_key,
                    Append(dict_at(done.mem.buffers, parent_key),
                           row_literal((IF fk # 0 THEN <<IntToStr(fk)>> ELSE <<>>)
                                       \o <<IntToStr(id)>>
                                       \o [j \in 1..Len(done.values) |-> done.values[j].v]))),
                         !.order = Append(@, [key |-> parent_key, id |-> id, fk |-> fk])],
            mappings, parent_key, nested_keys, fk, id, delim)

\* normalize_documents taking the documents from the last to the first
normalize_documents_backwards(n, documents, mem, mappings, parent_key, nested_keys, fk, id, delim) ==
    IF mem.err # "none" \/ n > Len(documents) THEN [mem |-> mem, id |-> id]
    ELSE IF documents[Len(documents) + 1 - n].t # "dict"
    THEN [mem |-> Fail(mem, "AttributeError"), id |-> id]
    ELSE normalize_append(n, documents,
            normalize_fields(1, flatten(documents[Len(documents) + 1 - n].v, <<>>, delim), mem,
                             <<>>, mappings, parent_key, nested_keys, id + 1),
            mappings, parent_key, nested_keys, fk, id + 1, delim)

\* the loop over documents from document n on, `id` being the last id assigned:
\* [mem, id]
normalize_documents(n, documents, mem, mappings, parent_key, nested_keys, fk, id, delim) ==
    IF mem.err # "none" \/ n > Len(documents) THEN [mem |-> mem, id |-> id]
    ELSE IF documents[n].t # "dict" THEN [mem |-> Fail(mem, "AttributeError"), id |-> id]
    ELSE normalize_append(n, documents,
            normalize_fields(1, flatten(documents[n].v, <<>>, delim), mem, <<>>, mappings,
                             parent_key, nested_keys, id + 1),
            mappings, parent_key, nested_keys, fk, id + 1, delim)

\* normalize_store without the assignment ids[parent_key] = id
normalize_store_stale(done, parent_key) == done.mem

\* ids[parent_key] = id, after the loop over the documents
normalize_store(done, parent_key) ==
    IF done.mem.err # "none" THEN done.mem
    ELSE [done.mem EXCEPT !.ids = dict_set(done.mem.ids, parent_key, done.id)]

\* [key.replace(parent_key+".", "") for key in mappings
\*  if parent_key in key and key != parent_key]
normalize_nested_keys(keys, parent_key) ==
    LET nested == select_where(keys,
                    {k \in 1..Len(keys) : Contains(keys[k], parent_key) /\ keys[k] # parent_key}, 1)
    IN  [k \in 1..Len(nested) |-> str_replace(nested[k], parent_key \o <<".">>, <<>>)]

\* normalize once buffers[parent_key] exists
normalize_start(documents, mem, mappings, parent_key, fk, id, delim) ==
    IF ~dict_has(mappings, parent_key) THEN Fail(mem, "KeyError")
    ELSE IF id = 0 /\ ~dict_has(mem.ids, parent_key) THEN Fail(mem, "KeyError")
    ELSE normalize_store(
            normalize_documents(1, documents, mem, mappings, parent_key,
                                normalize_nested_keys(dict_keys(mappings), parent_key), fk,
                                IF id = 0 THEN dict_at(mem.ids, parent_key) ELSE id, delim),
            parent_key)

normalize(documents, mem, mappings, parent_key, fk, id, delim) ==
    IF mem.err # "none" THEN mem
    ELSE normalize_start(documents,
            IF dict_has(mem.buffers, parent_key) THEN mem
            ELSE [mem EXCEPT !.buffers = dict_set(mem.buffers, parent_key, <<>>)],
            mappings, parent_key, fk, id, delim)

----------------------------------------------------------------------------
(* The destination and source databases behind the hooks.  A destination   *)
(* table is [columns, rows]: the column names of its CREATE statement and  *)
(* the row literals inserted so far; a table that was never created (or    *)
(* was dropped) is absent from the dict.  A source table is the list of    *)
(* its rows, each a dict column -> cell.                                   *)

RECURSIVE StrToNat(_)
StrToNat(s) ==
    IF Len(s) = 0 THEN 0
    ELSE 10 * StrToNat(SubSeq(s, 1, Len(s) - 1))
         + (CHOOSE d \in 0..9 : Digit(d) = s[Len(s)])

\* the integer a column literal denotes
StrToInt(s) == IF s[1] = "-" THEN 0 - StrToNat(Tail(s)) ELSE StrToNat(s)

\* the n-th value of a row literal "(v1, v2, ...)", for the leading key columns
row_value(row, n) == str_strip(str_split(row, ",")[n], {"(", ")", " "})

\* the column names of a definition "name type, name type, ..."
definition_columns(definition) ==
    LET parts == str_split(definition, ",")
    IN  [i \in 1..Len(parts) |-> str_split(str_strip(parts[i], {" "}), " ")[1]]

\* one statement of the DDL batch, by the template it was formatted from
DropTable(table) == [kind |-> "DROP", table |-> table]
CreateTable(table, definition) == [kind |-> "CREATE", table |-> table, definition |-> definition]

\* DROP TABLE IF EXISTS / CREATE TABLE IF NOT EXISTS on the destination
run_statement(db, q) ==
    IF q.kind = "DROP"
    THEN select_where(db, {i \in 1..Len(db) : db[i][1] # q.table}, 1)
    ELSE IF dict_has(db, q.table) THEN db
         ELSE dict_set(db, q.table, [columns |-> definition_columns(q.definition), rows |-> <<>>])

RECURSIVE run_statements(_, _)
\* destination_hook.run(queries)
run_statements(db, queries) ==
    IF Len(queries) = 0 THEN db
    ELSE run_statements(run_statement(db, queries[1]), Tail(queries))

SeqMax(xs) == CHOOSE m \in {xs[i] : i \in 1..Len(xs)} : \A i \in 1..Len(xs) : xs[i] <= m

\* destination_hook.get_first("SELECT max({pk}) FROM {table}")[0]: the exception of a
\* missing table or column, None for an empty table, else the largest key; `down` are
\* the tables whose query fails for a reason of the connection
select_max(db, table, pk, down) ==
    IF table \in down THEN Raise("OperationalError")
    ELSE IF ~dict_has(db, table) THEN Raise("ProgrammingError")
    ELSE LET tbl == dict_at(db, table)
         IN  IF ~InList(pk, tbl.columns) THEN Raise("ProgrammingError")
             ELSE IF Len(tbl.rows) = 0 THEN PyNone
             ELSE LET n == CHOOSE i \in 1..Len(tbl.columns) : tbl.columns[i] = pk
                  IN  PyInt(SeqMax([i \in 1..Len(tbl.rows) |-> StrToInt(row_value(tbl.rows[i], n))]))

\* the rows of an INSERT (or insert_rows) appended to the table
insert_into(db, table, rows) ==
    dict_set(db, table, [dict_at(db, table) EXCEPT !.rows = @ \o rows])

\* get_records without the OFFSET: every chunk is the first page
get_records_first(rows, columns, limit, offset) ==
    [i \in 1..(IF limit < Len(rows) THEN limit ELSE Len(rows)) |->
        [j \in 1..Len(columns) |-> dict_get(rows[i], columns[j])]]

\* source_hook.get_records(select_all + LIMIT/OFFSET): the cells of `columns`, per row
get_records(rows, columns, limit, offset) ==
    LET last == IF offset + limit < Len(rows) THEN offset + limit ELSE Len(rows)
    IN  [i \in 1..(last - offset) |->
            [j \in 1..Len(columns) |-> dict_get(rows[offset + i], columns[j])]]

----------------------------------------------------------------------------
(* normalizer.py: NormalizerOperator *)

\* x or default
PyOr(x, default) == IF Truthy(x) THEN x ELSE default

S_id == <<"i", "d">>
S_bigint == <<"b", "i", "g", "i", "n", "t">>
DefaultCommitEvery == 1000

DATABASES_MULTIPLE_VALUES_INSERT_SUPPORTS ==
    {"clickhouse", "greenplum", "mssql", "mysql", "postgres", "presto", "sqlite", "trino"}

\* NormalizerOperator.__init__: the attributes set from the keyword arguments
NormalizerOperator(kw) ==
    [mapping |-> kw.mapping,
     incremental |-> PyOr(kw.incremental, PyBool(FALSE)),
     preprocessing |-> kw.preprocessing,
     primary_key_name |-> PyOr(kw.primary_key_name, PyStr(S_id)),
     primary_key_type |-> PyOr(kw.primary_key_type, PyStr(S_bigint)),
     primary_key_short |-> PyOr(kw.primary_key_short, PyBool(TRUE)),
     primary_key_delim |-> PyOr(kw.primary_key_delim, PyStr(DefaultDelim)),
     commit_every |-> PyOr(kw.commit_every, PyInt(DefaultCommitEvery))]

\* execute: the root tables, the declared paths of minimum dot-depth
execute_roots(mapping_dict) ==
    LET keys == dict_keys(mapping_dict)
        deepness == [i \in 1..Len(keys) |-> str_count(keys[i], ".")]
        least == CHOOSE m \in {deepness[i] : i \in 1..Len(keys)} :
                    \A i \in 1..Len(keys) : m <= deepness[i]
        found == select_where(keys, {i \in 1..Len(keys) : deepness[i] = least}, 1)
    IN  [i \in 1..Len(found) |-> get_table(found[i])]

\* execute: the entries whose key contains the root's path
execute_filtered(mapping_dict, root) ==
    select_where(mapping_dict,
                 {i \in 1..Len(mapping_dict) : Contains(mapping_dict[i][1], root)}, 1)

RECURSIVE build_mappings(_, _, _)
\* one entry of the comprehension, m being what its constructor gave
build_mapping(filtered, i, acc, m) ==
    IF IsRaise(m) THEN [err |-> m.v, mappings |-> acc]
    ELSE build_mappings(filtered, i + 1, dict_set(acc, get_table(filtered[i][1]), m))

\* execute: {get_table(key): MappingElements(mapping_dict[key]) for key in filtered};
\* the first constructor that raises ends the comprehension
build_mappings(filtered, i, acc) ==
    IF i > Len(filtered) THEN [err |-> "none", mappings |-> acc]
    ELSE build_mapping(filtered, i, acc, MappingElements(filtered[i][2]))

\* the bracket selector of the root's own entry
execute_selected(filtered, root) ==
    LET own == select_where(filtered,
                    {i \in 1..Len(filtered) : get_table(filtered[i][1]) = root}, 1)
    IN  get_fields(own[1][1])

RECURSIVE unique_list(_, _)
\* the distinct elements of xs, first occurrences kept
unique_list(xs, acc) ==
    IF Len(xs) = 0 THEN acc
    ELSE unique_list(Tail(xs), IF InList(xs[1], acc) THEN acc ELSE Append(acc, xs[1]))

\* Body-style: the members of {x.split(".")[0] for x in original}; the set's iteration
\* order is chosen by the caller
body_fields(original) ==
    unique_list([i \in 1..Len(original) |-> str_split(original[i], ".")[1]], <<>>)

RECURSIVE body_expands(_, _, _)
\* Body-style: expands[column].append(field) for every extracted key with a dot
body_expands(extract, i, acc) ==
    IF i > Len(extract) THEN [err |-> "none", expands |-> acc]
    ELSE IF ~Contains(extract[i], <<".">>) THEN body_expands(extract, i + 1, acc)
    ELSE LET parts == str_split(extract[i], ".")
         IN  IF Len(parts) # 2 THEN [err |-> "ValueError", expands |-> acc]
             ELSE body_expands(extract, i + 1,
                    dict_set(acc, parts[1], Append(dict_at(acc, parts[1]), parts[2])))

\* execute: the columns to select and the columns to unpack, Header-style when the
\* root's key has a bracket selector, Body-style otherwise (fields: the iteration
\* order of the Body-style set)
execute_columns(selected, original, fields) ==
    IF Truthy(selected)
    THEN LET parts == str_split(selected.v, "+")
             named == [i \in 1..Len(parts) |-> str_strip(parts[i], {" "})]
             starred == select_where(named,
                            {j \in 1..Len(named) : Contains(named[j], <<"*", "*">>)}, 1)
         IN  [err |-> "none",
              columns |-> [i \in 1..Len(named) |-> str_strip(named[i], {"*"})],
              expands |-> PyList([i \in 1..Len(starred) |-> str_strip(starred[i], {"*"})])]
    ELSE LET extract == select_where(original,
                            {i \in 1..Len(original) :
                                Contains(original[i], <<"*", "*">>) \/ Contains(original[i], <<".">>)}, 1)
             empty == dict_update(<<>>, [i \in 1..Len(extract) |->
                                            <<str_split(extract[i], ".")[1], <<>>>>])
             filled == body_expands(extract, 1, empty)
         IN  [err |-> filled.err,
              columns |-> [i \in 1..Len(fields) |-> str_strip(fields[i], {"*"})],
              expands |-> PyDict(filled.expands)]

\* an I/O call on a hook, as logged in `io`
DestinationCall(call, arg) == [hook |-> "destination", call |-> call, arg |-> arg]
SourceCall(call, arg) == [hook |-> "source", call |-> call, arg |-> arg]

\* initialize_probe with every counter seeded at 0
initialize_probe_fresh(self, mappings, k, acc, pk, fk, definition, probe) ==
    [err |-> "none",
     buffers |-> dict_set(acc.buffers, mappings[k][1], <<>>),
     relations |-> dict_set(acc.relations, mappings[k][1], <<fk, pk>>),
     ids |-> dict_set(acc.ids, mappings[k][1],
                      0),
     queries |-> acc.queries
                 \o (IF Truthy(self.incremental) THEN <<>>
                     ELSE <<DropTable(mappings[k][2].destination)>>)
                 \o <<CreateTable(mappings[k][2].destination, definition)>>,
     io |-> acc.io \o (IF Truthy(self.incremental)
                       THEN <<DestinationCall("get_first",
                                [table |-> mappings[k][2].destination, pk |-> pk])>>
                       ELSE <<>>),
     warned |-> acc.warned \o (IF Truthy(self.incremental) /\ IsRaise(probe)
                               THEN <<mappings[k][1]>> ELSE <<>>)]

\* initialize_probe with the CREATE statement put before the DROP statement
initialize_probe_create_first(self, mappings, k, acc, pk, fk, definition, probe) ==
    [err |-> "none",
     buffers |-> dict_set(acc.buffers, mappings[k][1], <<>>),
     relations |-> dict_set(acc.relations, mappings[k][1], <<fk, pk>>),
     ids |-> dict_set(acc.ids, mappings[k][1],
                      IF ~Truthy(self.incremental) \/ IsRaise(probe) THEN 0
                      ELSE PyOr(probe, PyInt(0)).v),
     queries |-> acc.queries
                 \o <<CreateTable(mappings[k][2].destination, definition)>>
                 \o (IF Truthy(self.incremental) THEN <<>>
                     ELSE <<DropTable(mappings[k][2].destination)>>),
     io |-> acc.io \o (IF Truthy(self.incremental)
                       THEN <<DestinationCall("get_first",
                                [table |-> mappings[k][2].destination, pk |-> pk])>>
                       ELSE <<>>),
     warned |-> acc.warned \o (IF Truthy(self.incremental) /\ IsRaise(probe)
                               THEN <<mappings[k][1]>> ELSE <<>>)]

\* initialize_probe without the try/except around the probe
initialize_probe_escape(self, mappings, k, acc, pk, fk, definition, probe) ==
    [err |-> IF Truthy(self.incremental) /\ IsRaise(probe) THEN probe.v ELSE "none",
     buffers |-> dict_set(acc.buffers, mappings[k][1], <<>>),
     relations |-> dict_set(acc.relations, mappings[k][1], <<fk, pk>>),
     ids |-> dict_set(acc.ids, mappings[k][1],
                      IF ~Truthy(self.incremental) \/ IsRaise(probe) THEN 0
                      ELSE PyOr(probe, PyInt(0)).v),
     queries |-> acc.queries
                 \o (IF Truthy(self.incremental) THEN <<>>
                     ELSE <<DropTable(mappings[k][2].destination)>>)
                 \o <<CreateTable(mappings[k][2].destination, definition)>>,
     io |-> acc.io \o (IF Truthy(self.incremental)
                       THEN <<DestinationCall("get_first",
                                [table |-> mappings[k][2].destination, pk |-> pk])>>
                       ELSE <<>>),
     warned |-> acc.warned \o (IF Truthy(self.incremental) /\ IsRaise(probe)
                               THEN <<mappings[k][1]>> ELSE <<>>)]

\* initialize: the end of the loop body for the k-th key, its names and definition
\* formatted and `probe` being what the SELECT max gave.  acc holds the attributes
\* and the DDL batch built so far, the probes issued and the exception.
initialize_probe(self, mappings, k, acc, pk, fk, definition, probe) ==
    [err |-> "none",
     buffers |-> dict_set(acc.buffers, mappings[k][1], <<>>),
     relations |-> dict_set(acc.relations, mappings[k][1], <<fk, pk>>),
     ids |-> dict_set(acc.ids, mappings[k][1],
                      IF ~Truthy(self.incremental) \/ IsRaise(probe) THEN 0
                      ELSE PyOr(probe, PyInt(0)).v),
     queries |-> acc.queries
                 \o (IF Truthy(self.incremental) THEN <<>>
                     ELSE <<DropTable(mappings[k][2].destination)>>)
                 \o <<CreateTable(mappings[k][2].destination, definition)>>,
     io |-> acc.io \o (IF Truthy(self.incremental)
                       THEN <<DestinationCall("get_first",
                                [table |-> mappings[k][2].destination, pk |-> pk])>>
                       ELSE <<>>),
     warned |-> acc.warned \o (IF Truthy(self.incremental) /\ IsRaise(probe)
                               THEN <<mappings[k][1]>> ELSE <<>>)]

\* fk_type + pk_type + mappings[key].definition joined, and the probe of the table
initialize_names(self, db, down, mappings, k, acc, pk, fk) ==
    initialize_probe(self, mappings, k, acc, pk, fk,
        str_join(<<",", " ">>,
                 (IF Truthy(fk) THEN <<fk.v \o <<" ">> \o self.primary_key_type.v>> ELSE <<>>)
                 \o <<pk \o <<" ">> \o self.primary_key_type.v>>
                 \o mappings[k][2].definition),
        select_max(db, mappings[k][2].destination, pk, down))

\* parent, this, pk and fk of the k-th key
initialize_parent(self, db, down, mappings, k, acc, this, parent_key) ==
    IF Len(parent_key) > 0 /\ ~dict_has(mappings, parent_key)
    THEN [acc EXCEPT !.buffers = dict_set(acc.buffers, mappings[k][1], <<>>),
                     !.err = "KeyError"]
    ELSE initialize_names(self, db, down, mappings, k, acc,
            IF Truthy(self.primary_key_short) THEN self.primary_key_name.v
            ELSE this \o self.primary_key_delim.v \o self.primary_key_name.v,
            IF Len(parent_key) > 0 /\ Len(dict_at(mappings, parent_key).destination) > 0
            THEN PyStr(dict_at(mappings, parent_key).destination
                       \o self.primary_key_delim.v \o self.primary_key_name.v)
            ELSE PyNone)

\* parts = key.replace(root, table).split("."), and the parent's key from them
initialize_parts(self, db, down, root, table, mappings, k, acc, parts) ==
    initialize_parent(self, db, down, mappings, k, acc, parts[Len(parts)],
        str_replace(str_join(<<".">>, SubSeq(parts, 1, Len(parts) - 1)), table, root))

\* table = root.split(".")[-1]
initialize_table(self, db, down, root, table, mappings, k, acc) ==
    initialize_parts(self, db, down, root, table, mappings, k, acc,
                     str_split(str_replace(mappings[k][1], root, table), "."))

\* initialize: the body of `for key in mappings` for the k-th key
initialize_key(self, db, down, root, mappings, k, acc) ==
    initialize_table(self, db, down, root, str_split(root, ".")[Len(str_split(root, "."))],
                     mappings, k, acc)

RECURSIVE initialize_keys(_, _, _, _, _, _, _)
\* initialize: `for key in mappings`, from the k-th key on
initialize_keys(self, db, down, root, mappings, k, acc) ==
    IF acc.err # "none" \/ k > Len(mappings) THEN acc
    ELSE initialize_keys(self, db, down, root, mappings, k + 1,
                         initialize_key(self, db, down, root, mappings, k, acc))

\* initialize up to the call of destination_hook.run(queries)
initialize(self, db, down, root, mappings) ==
    initialize_keys(self, db, down, root, mappings, 1,
        [err |-> "none", buffers |-> <<>>, relations |-> <<>>, ids |-> <<>>,
         queries |-> <<>>, io |-> <<>>, warned |-> <<>>])

----------------------------------------------------------------------------
(* The bounds of the model and the documents of the source tables *)

\* the most rows of a source table
MaxRows == 2
\* the most elements of a document's child list
MaxKids == 2
\* the most elements of a child document's own child list
MaxGrand == 1
\* the largest page size (commit_every) besides the default
MaxChunk == 2
\* the most calls of execute on one operator
MaxRuns == 2

S_x == <<"x">>
S_y == <<"y">>
S_z == <<"z">>
S_c == <<"c">>
S_g == <<"g">>
S_d == <<"d">>

\* {"z": z}
GrandDoc(z) == PyDict(<< <<S_z, PyInt(z)>> >>)
\* {"y": y, "g": [{"z": 1}, ...]} with grand elements
ChildDoc(y, grand) ==
    PyDict(<< <<S_y, PyInt(y)>>, <<S_g, PyList([k \in 1..grand |-> GrandDoc(k)])>> >>)
\* {"x": x, "c": [{"y": 1, ...}, ...]} with kids elements
RootDoc(x, kids, grand) ==
    PyDict(<< <<S_x, PyInt(x)>>, <<S_c, PyList([j \in 1..kids |-> ChildDoc(j, grand)])>> >>)

\* the shapes <<kids, grand>> of a source document
RowShapes == {sh \in (0..MaxKids) \X (0..MaxGrand) : sh[1] = 0 => sh[2] = 0}

\* the JSON documents a text cell can hold
JsonUniverse == {RootDoc(1, sh[1], sh[2]) : sh \in RowShapes}

\* json.loads(text), for the text json.dumps gives of a document
json_loads(text) ==
    IF \E doc \in JsonUniverse : json_dumps(doc) = text
    THEN CHOOSE doc \in JsonUniverse : json_dumps(doc) = text
    ELSE Raise("JSONDecodeError")

----------------------------------------------------------------------------
(* normalizer.py: NormalizerOperator.normalize, one source row *)

\* document.update(json.loads(cell))
header_loaded(document, loaded) ==
    IF IsRaise(loaded) THEN [err |-> loaded.v, document |-> document]
    ELSE IF loaded.t # "dict" THEN [err |-> "TypeError", document |-> document]
    ELSE [err |-> "none", document |-> dict_update(document, loaded.v)]

\* the Header-style branch for one column
header_cell(document, column_name, cell, expands) ==
    IF InList(column_name, expands) /\ cell.t = "dict"
    THEN [err |-> "none", document |-> dict_update(document, cell.v)]
    ELSE IF InList(column_name, expands) /\ cell.t = "str"
    THEN header_loaded(document, json_loads(cell.v))
    ELSE [err |-> "none", document |-> dict_set(document, column_name, cell)]

RECURSIVE body_extract(_, _, _, _, _)
\* document[f"{column_name}.{field}"] = flat[field] if field in flat else None
body_extract(document, column_name, fields, flat, i) ==
    IF i > Len(fields) THEN document
    ELSE body_extract(dict_set(document, column_name \o <<".">> \o fields[i],
                               dict_get(flat, fields[i])),
                      column_name, fields, flat, i + 1)

\* the Body-style branch once column_name and data are set
body_data(document, column_name, cell, expands, data) ==
    IF IsRaise(data) THEN [err |-> data.v, document |-> document]
    ELSE IF data.t = "None"
    THEN [err |-> "none", document |-> dict_set(document, column_name, cell)]
    ELSE IF Len(dict_at(expands, column_name)) = 0
    THEN [err |-> "none", document |-> dict_set(document, column_name, PyList(<<data>>))]
    ELSE IF data.t # "dict" THEN [err |-> "AttributeError", document |-> document]
    ELSE [err |-> "none",
          document |-> body_extract(document, column_name, dict_at(expands, column_name),
                                    flatten(data.v, <<>>, DefaultDelim), 1)]

\* the Body-style branch for one column
body_cell(document, column, cell, expands) ==
    IF dict_has(expands, column \o <<"*", "*">>)
    THEN body_data(document, column \o <<"*", "*">>, cell, expands,
                   IF cell.t = "str" THEN json_loads(cell.v) ELSE cell)
    ELSE body_data(document, column, cell, expands,
                   IF dict_has(expands, column) /\ cell.t = "dict" THEN cell ELSE PyNone)

RECURSIVE build_document(_, _, _, _, _)
\* the next column, after `step` of the column of `index`
build_column(row, columns, expands, index, step) ==
    IF step.err # "none" THEN step
    ELSE build_document(row, columns, expands, index + 1, step.document)

\* the document of one source row: the loop over the selected columns
build_document(row, columns, expands, index, document) ==
    IF index > Len(columns) THEN [err |-> "none", document |-> document]
    ELSE build_column(row, columns, expands, index,
            IF expands.t = "list"
            THEN header_cell(document, columns[index], row[index], expands.v)
            ELSE body_cell(document, columns[index], row[index], expands.v))

\* self.preprocessing(document) if callable(self.preprocessing) else [document];
\* the user's function is one of: each document twice, no document
preprocess(preprocessing, document) ==
    IF preprocessing.t # "function" THEN <<document>>
    ELSE IF preprocessing.v = "twice" THEN <<document, document>>
    ELSE <<>>

RECURSIVE normalize_rows(_, _, _, _, _, _, _, _)
\* the documents of one row handed to normalize
normalize_row(self, rows, n, columns, expands, mappings, root, acc, documents) ==
    normalize_rows(self, rows, n + 1, columns, expands, mappings, root,
        [mem |-> normalize(documents, acc.mem, mappings, root, 0, 0, DefaultDelim),
         fed |-> acc.fed \o documents])

\* one row, its document built
normalize_built(self, rows, n, columns, expands, mappings, root, acc, built) ==
    IF built.err # "none" THEN [acc EXCEPT !.mem = Fail(acc.mem, built.err)]
    ELSE normalize_row(self, rows, n, columns, expands, mappings, root, acc,
                       preprocess(self.preprocessing, PyDict(built.document)))

\* `for row in rows` of one chunk: the documents built and fed so far and the memory
normalize_rows(self, rows, n, columns, expands, mappings, root, acc) ==
    IF acc.mem.err # "none" \/ n > Len(rows) THEN acc
    ELSE normalize_built(self, rows, n, columns, expands, mappings, root, acc,
                         build_document(rows[n], columns, expands, 1, <<>>))

----------------------------------------------------------------------------
(* The mapping specifications (the parsed YAML) and source tables checked *)

T_Int == <<"I", "n", "t">>
T_json == <<"j", "s", "o", "n">>

\* sourceFieldKey: {destColumnName: destType}
Field(key, column, type) == <<key, PyDict(<< <<column, PyStr(type)>> >>)>>
\* {destination: {field, ...}}
Table(destination, fields) == PyDict(<< <<destination, PyDict(fields)>> >>)

\* r[d**] -> r.c -> r.c.g, Header-style: the whole document is the JSON column d
ThreeLevels ==
    << <<<<"r", "[", "d", "*", "*", "]">>,
         Table(<<"R">>, <<Field(S_x, S_x, T_Int), Field(S_c, S_c, T_json)>>)>>,
       <<<<"r", ".", "c">>,
         Table(<<"C">>, <<Field(S_y, S_y, T_Int), Field(S_g, S_g, T_json)>>)>>,
       <<<<"r", ".", "c", ".", "g">>,
         Table(<<"G">>, <<Field(S_z, S_z, T_Int)>>)>> >>

\* r -> r.c only, Header-style
TwoLevels == SubSeq(ThreeLevels, 1, 2)

\* the source table r: row i holds the document RootDoc(i, kids, grand) in column d
ThreeLevelsSource(shapes) ==
    << <<<<"r">>, [i \in 1..Len(shapes) |->
                    << <<S_d, RootDoc(i, shapes[i][1], shapes[i][2])>> >>]>> >>

RECURSIVE SeqsUpTo(_, _)
\* the sequences over S of length at most n
SeqsUpTo(S, n) ==
    IF n = 0 THEN {<<>>}
    ELSE LET shorter == SeqsUpTo(S, n - 1)
         IN  shorter \cup {Append(q, x) : q \in {p \in shorter : Len(p) = n - 1}, x \in S}

S_a == <<"a">>
S_b == <<"b">>
S_k == <<"k">>
S_u == <<"u">>
S_v == <<"v">>
S_w == <<"w">>

TableA == Table(<<"A">>, <<Field(S_u, S_u, T_Int), Field(S_k, S_k, T_json)>>)
TableK == Table(<<"K">>, <<Field(S_w, S_w, T_Int)>>)
TableB == Table(<<"B">>, <<Field(S_v, S_v, T_Int)>>)

\* two roots a (with the child a.k) and b, Body-style
TwoRoots == << <<S_a, TableA>>, <<<<"a", ".", "k">>, TableK>>, <<S_b, TableB>> >>

\* two roots ab and a: the path of the second is a substring of the first
NestedNames == << <<<<"a", "b">>, TableB>>, <<S_a, TableA>>, <<<<"a", ".", "k">>, TableK>> >>

\* two roots a and k, and the child a.k, whose leaf is the name of the root k
SharedLeaf == << <<S_a, TableA>>, <<<<"a", ".", "k">>, TableK>>, <<S_k, TableB>> >>

RowA(u, kids) ==
    << <<S_u, PyInt(u)>>, <<S_k, PyList([j \in 1..kids |-> PyDict(<< <<S_w, PyInt(j)>> >>)])>> >>
RowB(v) == << <<S_v, PyInt(v)>> >>

\* the source tables of the two-root specifications
TwoRootsSource ==
    << <<S_a, <<RowA(1, 2), RowA(2, 1)>>>>,
       <<S_b, <<RowB(1), RowB(2)>>>>,
       <<<<"a", "b">>, <<RowB(1)>>>>,
       <<S_k, <<RowB(1)>>>> >>

\* a table entry that is not of the declared shape
Malformed(defect) ==
    CASE defect = "no_destination" -> PyDict(<<>>)
      [] defect = "not_a_dict" -> PyNone
      [] defect = "two_destinations" ->
            PyDict(<< <<<<"B">>, PyDict(<<Field(S_v, S_v, T_Int)>>)>>,
                      <<<<"Z">>, PyDict(<<Field(S_v, S_v, T_Int)>>)>> >>)
      [] defect = "two_pairs" ->
            Table(<<"B">>, << <<S_v, PyDict(<< <<S_v, PyStr(T_Int)>>, <<S_w, PyStr(T_Int)>> >>)>> >>)
      [] defect = "no_pair" ->
            Table(<<"B">>, << <<S_v, PyDict(<<>>)>> >>)

Defects == {"no_destination", "not_a_dict", "two_destinations", "two_pairs", "no_pair"}

\* the roots a (with a.k) and b, the entry of b malformed, b declared first or last
MalformedSpec(defect, first) ==
    IF first
    THEN << <<S_b, Malformed(defect)>>, <<S_a, TableA>>, <<<<"a", ".", "k">>, TableK>> >>
    ELSE << <<S_a, TableA>>, <<<<"a", ".", "k">>, TableK>>, <<S_b, Malformed(defect)>> >>

\* the keyword arguments of the constructor left at their defaults
Defaults(mapping) ==
    [mapping |-> mapping, incremental |-> PyNone, preprocessing |-> PyNone,
     primary_key_name |-> PyNone, primary_key_type |-> PyNone,
     primary_key_short |-> PyNone, primary_key_delim |-> PyNone, commit_every |-> PyNone]

PageSizes == {PyNone} \cup {PyInt(n) : n \in 1..MaxChunk}
Flags == {PyNone, PyBool(TRUE), PyBool(FALSE)}
Hooks == {PyNone, [t |-> "function", v |-> "twice"], [t |-> "function", v |-> "drop"]}

\* the operators and databases checked: [kwargs, source, conn_type]
\* (1) every source of the three-level mapping, every page size, both modes; and of
\* the two-level mapping, whose child documents have no child list of their own
Paged ==
    {[kwargs |-> [Defaults(ThreeLevels) EXCEPT !.incremental = inc, !.commit_every = size],
      source |-> ThreeLevelsSource(shapes), conn_type |-> "postgres"] :
        inc \in {PyNone, PyBool(TRUE)}, size \in PageSizes,
        shapes \in SeqsUpTo(RowShapes, MaxRows)}
    \cup
    {[kwargs |-> [Defaults(TwoLevels) EXCEPT !.incremental = inc, !.commit_every = size],
      source |-> ThreeLevelsSource(shapes), conn_type |-> "postgres"] :
        inc \in {PyNone, PyBool(TRUE)}, size \in PageSizes,
        shapes \in SeqsUpTo({sh \in RowShapes : sh[2] = 0}, MaxRows)}

\* (2) every option of the constructor, on the two-level mapping
Optioned ==
    {[kwargs |-> [Defaults(TwoLevels) EXCEPT !.incremental = inc, !.commit_every = PyInt(1),
                    !.primary_key_short = short, !.primary_key_name = name,
                    !.preprocessing = hook],
      source |-> ThreeLevelsSource(<<<<MaxKids, 0>>, <<1, 0>>>>), conn_type |-> conn] :
        inc \in Flags, short \in Flags, name \in {PyNone, PyStr(S_k)},
        hook \in Hooks, conn \in {"postgres", "oracle"}}

\* (3) several roots, well-formed and malformed, in one chunk per root; and the
\* well-formed two roots in chunks of one row
Rooted ==
    {[kwargs |-> [Defaults(m) EXCEPT !.incremental = inc],
      source |-> TwoRootsSource, conn_type |-> conn] :
        inc \in {PyNone, PyBool(TRUE)}, conn \in {"postgres", "oracle"},
        m \in {TwoRoots, NestedNames, SharedLeaf}
              \cup {MalformedSpec(d, f) : d \in Defects, f \in BOOLEAN}}
    \cup
    {[kwargs |-> [Defaults(TwoRoots) EXCEPT !.incremental = inc, !.commit_every = PyInt(1)],
      source |-> TwoRootsSource, conn_type |-> conn] :
        inc \in {PyNone, PyBool(TRUE)}, conn \in {"postgres", "oracle"}}

----------------------------------------------------------------------------
(* The state *)

VARIABLES
    kwargs,     \* the keyword arguments the operator was constructed with
    self,       \* the operator's attributes set by __init__
    conn_type,  \* destination_hook.conn_type
    source,     \* the source database: table -> rows
    dest,       \* the destination database: table -> [columns, rows]
    snapshot,   \* the destination database as the last commit left it: what remains
                \* when the connection of a flush is closed without a commit
    pc,         \* where execute stands: idle, discover, initialize, count, fetch,
                \* flush, delete, success, failed
    error,      \* the exception that ended execute, or "none"
    runs,       \* the calls of execute so far
    roots,      \* execute: the root tables
    root_i,     \* execute: the index of the root being processed
    mappings,   \* execute: the MappingElements of the root's group
    columns,    \* execute: the columns to select
    expands,    \* execute: the columns to unpack
    bound,      \* whether self.ids, self.buffers, self.relations exist
    ids,        \* self.ids
    buffers,    \* self.buffers
    relations,  \* self.relations
    total,      \* normalize: the count of source rows
    offset,     \* normalize: the offset of the current chunk
    flush_k,    \* normalize: the index of the next table to flush
    io,         \* the database calls issued by the current execute, in order
    queries,    \* initialize: the DDL batch handed to destination_hook.run
    warned,     \* initialize: the tables of the "have not been created yet" warnings
    seeds,      \* self.ids as initialize left it
    fed,        \* the documents handed to normalize for the current root, in order
    emitted,    \* table -> the rows appended to its buffer for the current root, in order
    stored,     \* the destination database as initialize found it for the current root
    arg,        \* the call of a function of utils.py (function specifications)
    ret         \* its result

vars == <<kwargs, self, conn_type, source, dest, snapshot, pc, error, runs, roots, root_i, mappings,
          columns, expands, bound, ids, buffers, relations, total, offset, flush_k, io,
          queries, warned, seeds, fed, emitted, stored, arg, ret>>

config == <<kwargs, self, conn_type, source>>
locals == <<roots, root_i, mappings, columns, expands>>
attrs == <<bound, ids, buffers, relations>>
paging == <<total, offset, flush_k>>
ghosts == <<queries, warned, seeds, fed, emitted, stored>>
database == <<dest, snapshot>>
function == <<arg, ret>>

root == roots[root_i]
multiple == conn_type \in DATABASES_MULTIPLE_VALUES_INSERT_SUPPORTS
limit == self.commit_every.v

\* the operator as constructed, before its first execute, on a fresh destination
InitOperator(c) ==
    /\ kwargs = c.kwargs
    /\ self = NormalizerOperator(c.kwargs)
    /\ conn_type = c.conn_type
    /\ source = c.source
    /\ dest = <<>>
    /\ snapshot = <<>>
    /\ pc = "idle"
    /\ error = "none"
    /\ runs = 0
    /\ roots = <<>>
    /\ root_i = 0
    /\ mappings = <<>>
    /\ columns = <<>>
    /\ expands = PyList(<<>>)
    /\ bound = FALSE
    /\ ids = <<>>
    /\ buffers = <<>>
    /\ relations = <<>>
    /\ total = 0
    /\ offset = 0
    /\ flush_k = 0
    /\ io = <<>>
    /\ queries = <<>>
    /\ warned = <<>>
    /\ seeds = <<>>
    /\ fed = <<>>
    /\ emitted = <<>>
    /\ stored = <<>>

\* no function of utils.py is called on its own
NoCall == [f |-> "none"]

Init ==
    /\ \E c \in Paged \cup Optioned \cup Rooted : InitOperator(c)
    /\ arg = NoCall
    /\ ret = PyNone

\* execute raised e
Raised(e) ==
    /\ pc' = "failed"
    /\ error' = e

\* execute, up to the loop over the roots
Execute ==
    /\ pc \in {"idle", "success", "failed"}
    /\ runs < MaxRuns
    /\ runs' = runs + 1
    /\ roots' = execute_roots(self.mapping)
    /\ root_i' = 1
    /\ pc' = "discover"
    /\ error' = "none"
    /\ io' = <<>>
    /\ UNCHANGED <<config, database, mappings, columns, expands, attrs, paging, ghosts, function>>

\* the iteration orders of the Body-style set of fields
execute_orders(selected, fields) ==
    IF Truthy(selected) THEN {<<>>}
    ELSE {[i \in 1..Len(fields) |-> fields[p[i]]] : p \in Permutations(1..Len(fields))}

\* execute: columns and expands computed, initialize is next
DiscoverColumns(built, cols) ==
    /\ mappings' = built.mappings
    /\ IF cols.err # "none"
       THEN /\ Raised(cols.err)
            /\ UNCHANGED <<columns, expands>>
       ELSE /\ columns' = cols.columns
            /\ expands' = cols.expands
            /\ pc' = "initialize"
            /\ UNCHANGED error

\* execute: the selector of the root's key and the source fields of its table
DiscoverSelected(built, selected, original) ==
    \E fields \in execute_orders(selected, body_fields(original)) :
        DiscoverColumns(built, execute_columns(selected, original, fields))

\* execute: the mappings of the root's group built
DiscoverMappings(filtered, built) ==
    IF built.err # "none"
    THEN /\ Raised(built.err)
         /\ UNCHANGED <<mappings, columns, expands>>
    ELSE DiscoverSelected(built, execute_selected(filtered, root),
                          dict_at(built.mappings, root).original)

\* execute: the group of the root
DiscoverFiltered(filtered) ==
    DiscoverMappings(filtered, build_mappings(filtered, 1, <<>>))

\* execute, the body of `for root in roots` up to the call of initialize
Discover ==
    /\ pc = "discover"
    /\ DiscoverFiltered(execute_filtered(self.mapping, root))
    /\ UNCHANGED <<config, database, runs, roots, root_i, attrs, paging, io, ghosts, function>>

\* initialize: the attributes reset and filled, and destination_hook.run(queries)
InitializeDone(done) ==
    /\ bound' = TRUE
    /\ ids' = done.ids
    /\ buffers' = done.buffers
    /\ relations' = done.relations
    /\ warned' = done.warned
    /\ seeds' = done.ids
    /\ stored' = dest
    /\ fed' = <<>>
    /\ emitted' = [i \in 1..Len(done.buffers) |-> <<done.buffers[i][1], <<>>>>]
    /\ IF done.err # "none"
       THEN /\ Raised(done.err)
            /\ io' = io \o done.io
            /\ UNCHANGED <<database, queries>>
       ELSE /\ dest' = run_statements(dest, done.queries)
            /\ snapshot' = dest'
            /\ queries' = done.queries
            /\ io' = io \o done.io \o <<DestinationCall("run", Len(done.queries))>>
            /\ pc' = "count"
            /\ UNCHANGED error

\* the probes that fail although the table may exist: none, or the probe of one
\* table of the group (full refresh issues no probe)
Outages ==
    IF Truthy(self.incremental)
    THEN {{}} \cup {{mappings[k][2].destination} : k \in 1..Len(mappings)}
    ELSE {{}}

\* initialize(root, mappings)
Initialize ==
    /\ pc = "initialize"
    /\ \E down \in Outages : InitializeDone(initialize(self, dest, down, root, mappings))
    /\ UNCHANGED <<config, runs, locals, paging, function>>

\* normalize(root, mappings, columns, expands), up to the loop over the chunks
Count ==
    /\ pc = "count"
    /\ io' = io \o <<SourceCall("get_first", root)>>
    /\ IF ~dict_has(source, root)
       THEN /\ Raised("ProgrammingError")
            /\ UNCHANGED paging
       ELSE /\ total' = Len(dict_at(source, root))
            /\ offset' = 0
            /\ flush_k' = 0
            /\ pc' = IF 0 < total' THEN "fetch" ELSE "delete"
            /\ UNCHANGED error
    /\ UNCHANGED <<config, database, runs, locals, attrs, ghosts, function>>

\* the rows a chunk appended to the buffer of key: `after` without its first `before`
grown(before, after) == SubSeq(after, before + 1, Len(after))

\* the chunk's rows normalized: done = [mem, fed]
FetchDone(done) ==
    /\ buffers' = done.mem.buffers
    /\ ids' = done.mem.ids
    /\ fed' = fed \o done.fed
    /\ emitted' = [i \in 1..Len(done.mem.buffers) |->
                    <<done.mem.buffers[i][1],
                      (IF dict_has(emitted, done.mem.buffers[i][1])
                       THEN dict_at(emitted, done.mem.buffers[i][1]) ELSE <<>>)
                      \o grown(IF dict_has(buffers, done.mem.buffers[i][1])
                               THEN Len(dict_at(buffers, done.mem.buffers[i][1])) ELSE 0,
                               done.mem.buffers[i][2])>>]
    /\ IF done.mem.err # "none"
       THEN /\ Raised(done.mem.err)
            /\ UNCHANGED flush_k
       ELSE /\ pc' = "flush"
            /\ flush_k' = 1
            /\ UNCHANGED error

\* one chunk: the rows fetched, and every row made a document and normalized
Fetch ==
    /\ pc = "fetch"
    /\ io' = io \o <<SourceCall("get_records", [limit |-> limit, offset |-> offset])>>
    /\ FetchDone(normalize_rows(self, get_records(dict_at(source, root), columns, limit, offset),
                                1, columns, expands, mappings, root,
                                [mem |-> [buffers |-> buffers, ids |-> ids, err |-> "none",
                                         order |-> <<>>],
                                 fed |-> <<>>]))
    /\ UNCHANGED <<config, database, runs, locals, bound, relations, total, offset, queries,
                   warned, seeds, stored, function>>

\* the column list of a table's INSERT: ", ".join(fk + pk + mappings[key].fields),
\* fk and pk of self.relations[key], each left out when it is None or empty
insert_fields(relation, mapping) ==
    (IF relation[1].t = "str" /\ Len(relation[1].v) > 0 THEN <<relation[1].v>> ELSE <<>>)
    \o (IF Len(relation[2]) > 0 THEN <<relation[2]>> ELSE <<>>)
    \o mapping.fields

\* the call that writes the rows of a table: cur.execute of its INSERT (multiple
\* values) with its column list, or destination_hook.insert_rows, which is given no
\* column list
flush_call(destination, rows) ==
    DestinationCall(IF multiple THEN "execute" ELSE "insert_rows",
                    [table |-> destination, rows |-> Len(rows),
                     fields |-> IF multiple
                                THEN insert_fields(dict_at(relations, mappings[flush_k][1]),
                                                   mappings[flush_k][2])
                                ELSE <<>>])

\* as FlushWritten, the rows of a buffer written on the multiple-values path staying
\* in the buffer for the next chunk
FlushWritten_carried(key, destination, rows) ==
    /\ IF multiple /\ Len(rows) = 0
       THEN UNCHANGED <<database, io>>
       ELSE /\ dest' = insert_into(dest, destination, rows)
            /\ snapshot' = IF multiple THEN snapshot ELSE dest'
            /\ io' = io \o <<flush_call(destination, rows)>>
    /\ buffers' = IF multiple THEN buffers ELSE dict_set(buffers, key, <<>>)
    /\ flush_k' = flush_k + 1
    /\ UNCHANGED <<pc, error>>

\* as FlushWritten, the buffer emptied on the multiple-values path only
FlushWritten_kept(key, destination, rows) ==
    /\ IF multiple /\ Len(rows) = 0
       THEN UNCHANGED <<database, io>>
       ELSE /\ dest' = insert_into(dest, destination, rows)
            /\ snapshot' = IF multiple THEN snapshot ELSE dest'
            /\ io' = io \o <<flush_call(destination, rows)>>
    /\ buffers' = IF multiple THEN dict_set(buffers, key, <<>>) ELSE buffers
    /\ flush_k' = flush_k + 1
    /\ UNCHANGED <<pc, error>>

\* the write of the table returned: the rows are in the table (insert_rows commits
\* them, the INSERT of the multiple-values path waits for conn.commit()), and the
\* buffer is emptied; an empty buffer is skipped on the multiple-values path
FlushWritten(key, destination, rows) ==
    /\ IF multiple /\ Len(rows) = 0
       THEN UNCHANGED <<database, io>>
       ELSE /\ dest' = insert_into(dest, destination, rows)
            /\ snapshot' = IF multiple THEN snapshot ELSE dest'
            /\ io' = io \o <<flush_call(destination, rows)>>
    /\ buffers' = dict_set(buffers, key, <<>>)
    /\ flush_k' = flush_k + 1
    /\ UNCHANGED <<pc, error>>

\* as FlushRaised, with a compensation: the destination put back to what the DDL
\* batch of initialize left
FlushRaised_compensated(destination, rows) ==
    /\ ~(multiple /\ Len(rows) = 0)
    /\ io' = io \o <<flush_call(destination, rows)>>
    /\ Raised("DatabaseError")
    /\ dest' = run_statements(stored, queries)
    /\ snapshot' = dest'
    /\ UNCHANGED <<buffers, flush_k>>

\* the write of the table raised: the exception leaves normalize and execute; the
\* `with closing(...)` blocks close the cursor and the connection without a commit,
\* which keeps the INSERTs already executed for the chunk (autocommit, or an engine
\* without transactions) or discards them (the open transaction is dropped)
FlushRaised(destination, rows) ==
    /\ ~(multiple /\ Len(rows) = 0)
    /\ io' = io \o <<flush_call(destination, rows)>>
    /\ Raised("DatabaseError")
    /\ dest' \in {dest, snapshot}
    /\ snapshot' = dest'
    /\ UNCHANGED <<buffers, flush_k>>

\* the flush of one table of the chunk
FlushTable ==
    /\ pc = "flush"
    /\ flush_k <= Len(mappings)
    /\ \/ FlushWritten(mappings[flush_k][1], mappings[flush_k][2].destination,
                       dict_at(buffers, mappings[flush_k][1]))
       \/ FlushRaised(mappings[flush_k][2].destination, dict_at(buffers, mappings[flush_k][1]))
    /\ UNCHANGED <<config, runs, locals, bound, ids, relations, total, offset, ghosts, function>>

\* as FlushEnd, the loop going on while the offset is not above the total
FlushEnd_inclusive ==
    /\ pc = "flush"
    /\ flush_k > Len(mappings)
    /\ io' = IF multiple THEN io \o <<DestinationCall("commit", 0)>> ELSE io
    /\ offset' = offset + limit
    /\ pc' = IF offset' <= total THEN "fetch" ELSE "delete"
    /\ snapshot' = dest
    /\ UNCHANGED <<config, dest, error, runs, locals, attrs, total, flush_k, ghosts, function>>

\* as FlushEnd, the flush left for the next chunk as soon as one table is flushed
FlushEnd_early ==
    /\ pc = "flush"
    /\ flush_k > 1
    /\ io' = IF multiple THEN io \o <<DestinationCall("commit", 0)>> ELSE io
    /\ offset' = offset + limit
    /\ pc' = IF offset' < total THEN "fetch" ELSE "delete"
    /\ snapshot' = dest
    /\ UNCHANGED <<config, dest, error, runs, locals, attrs, total, flush_k, ghosts, function>>

\* the end of the flush: conn.commit() (multiple values), then the next chunk
FlushEnd ==
    /\ pc = "flush"
    /\ flush_k > Len(mappings)
    /\ io' = IF multiple THEN io \o <<DestinationCall("commit", 0)>> ELSE io
    /\ offset' = offset + limit
    /\ pc' = IF offset' < total THEN "fetch" ELSE "delete"
    /\ snapshot' = dest
    /\ UNCHANGED <<config, dest, error, runs, locals, attrs, total, flush_k, ghosts, function>>

\* del self.ids, self.buffers, self.relations, and the next root
Delete ==
    /\ pc = "delete"
    /\ bound' = FALSE
    /\ ids' = <<>>
    /\ buffers' = <<>>
    /\ relations' = <<>>
    /\ root_i' = root_i + 1
    /\ pc' = IF root_i < Len(roots) THEN "discover" ELSE "success"
    /\ UNCHANGED <<config, database, error, runs, roots, mappings, columns, expands, paging, io,
                   ghosts, function>>

Next ==
    \/ Execute
    \/ Discover
    \/ Initialize
    \/ Count
    \/ Fetch
    \/ FlushTable
    \/ FlushEnd
    \/ Delete

Spec == Init /\ [][Next]_vars

----------------------------------------------------------------------------
(* The functions of utils.py, each applied once to an input of a bounded set *)

\* the most destination keys of a table entry
MaxDestinations == 2
\* the most field entries of a table entry
MaxFields == 2
\* the most (column, type) pairs of a field entry
MaxPairs == 2

S_OBrien == <<"O", "'", "B", "r", "i", "e", "n">>
S_boolean == <<"b", "o", "o", "l", "e", "a", "n">>
S_varchar == <<"v", "a", "r", "c", "h", "a", "r">>
S_int == <<"i", "n", "t">>
S_json == <<"j", "s", "o", "n">>

\* the values handed to prepare_value
CodecValues ==
    {PyNone, PyBool(TRUE), PyBool(FALSE), PyInt(0), PyInt(7), PyInt(0 - 3),
     PyStr(<<>>), PyStr(S_x), PyStr(S_OBrien), PyStr(<<"a", "\\", "b">>),
     PyList(<<>>), PyList(<<PyInt(1), PyInt(2)>>), PyList(<<PyStr(S_OBrien)>>),
     PyDict(<<>>), PyDict(<< <<S_a, PyInt(1)>> >>),
     PyDatetime(<<2023, 1, 16, 9, 5, 0, 0>>), PyDatetime(<<2023, 1, 16, 9, 5, 0, 42>>)}

\* the declared types, lower-cased as MappingElements hands them over
CodecCasts ==
    {S_boolean, S_varchar, S_int, S_json, S_timestamp, S_datetime64, S_datetime, S_date}

\* a table entry of `d` destination keys, each with one field entry per element of
\* `pairs`, the k-th of pairs[k] (column, type) pairs
Translation(d, pairs) ==
    PyDict([i \in 1..d |->
        <<<< <<"A">>, <<"B">>, <<"C">> >>[i],
          PyDict([k \in 1..Len(pairs) |->
            <<<<S_u, S_v, S_w>>[k],
              PyDict([j \in 1..pairs[k] |-> <<<<S_x, S_y, S_z>>[j], PyStr(T_Int)>>])>>])>>])

\* the table entries handed to MappingElements
Translations ==
    {Translation(d, pairs) : d \in 0..MaxDestinations,
                             pairs \in SeqsUpTo(0..MaxPairs, MaxFields)}
    \cup {PyNone, PyStr(S_x), Table(<<"A">>, << <<S_u, PyStr(T_Int)>> >>)}

\* the mappings of the three-level specification, as execute builds them
ThreeLevelsMappings == build_mappings(ThreeLevels, 1, <<>>).mappings

\* the counters the normalizer starts from: every table at 0, or every table at 3
Seeds == {0, 3}

\* self.buffers and self.ids as initialize leaves them, every counter at seed
Memory(seed) ==
    [buffers |-> [k \in 1..Len(ThreeLevelsMappings) |-> <<ThreeLevelsMappings[k][1], <<>>>>],
     ids |-> [k \in 1..Len(ThreeLevelsMappings) |-> <<ThreeLevelsMappings[k][1], seed>>],
     err |-> "none",
     order |-> <<>>]

\* the lists of documents handed to normalize for the root table r
Batches ==
    {[i \in 1..Len(shapes) |-> RootDoc(i, shapes[i][1], shapes[i][2])] :
        shapes \in SeqsUpTo(RowShapes, MaxRows)}

\* the calls checked
Calls ==
    {[f |-> "prepare_value", value |-> v, cast |-> c] : v \in CodecValues, c \in CodecCasts}
    \cup {[f |-> "MappingElements", translation |-> t] : t \in Translations}
    \cup {[f |-> "normalize", documents |-> b, mem |-> Memory(seed)] :
                b \in Batches, seed \in Seeds}

InitFunctions ==
    /\ InitOperator([kwargs |-> Defaults(TwoLevels), source |-> <<>>, conn_type |-> "postgres"])
    /\ arg \in Calls
    /\ ret = PyNone

\* prepare_value(value, cast): ret = [val, fired]
PrepareValue ==
    /\ arg.f = "prepare_value"
    /\ ret = PyNone
    /\ ret' = prepare_trace(arg.value, arg.cast)
    /\ UNCHANGED <<config, database, pc, error, runs, locals, attrs, paging, io, ghosts, arg>>

\* MappingElements(translation)
BuildMapping ==
    /\ arg.f = "MappingElements"
    /\ ret = PyNone
    /\ ret' = MappingElements(arg.translation)
    /\ UNCHANGED <<config, database, pc, error, runs, locals, attrs, paging, io, ghosts, arg>>

\* normalize(documents, buffers, ids, mappings, "r"): ret = [buffers, ids, err, order]
Normalize ==
    /\ arg.f = "normalize"
    /\ ret = PyNone
    /\ ret' = normalize(arg.documents, arg.mem, ThreeLevelsMappings, <<"r">>, 0, 0, DefaultDelim)
    /\ UNCHANGED <<config, database, pc, error, runs, locals, attrs, paging, io, ghosts, arg>>

NextFunctions ==
    \/ PrepareValue
    \/ BuildMapping
    \/ Normalize

SpecFunctions == InitFunctions /\ [][NextFunctions]_vars

----------------------------------------------------------------------------
(* Properties of one root-table run.  They are read off the rows appended  *)
(* to the buffers (emitted), the documents handed to the normalizer (fed)  *)
(* and the counters as initialize left them (seeds).                       *)

\* initialize has returned for the current root and its normalize has not raised
Running == pc \in {"count", "fetch", "flush", "delete"}

\* the path of the parent table: the path without its last segment
ParentKey(key) ==
    str_join(<<".">>, SubSeq(str_split(key, "."), 1, Len(str_split(key, ".")) - 1))

\* the last segment of a path
Leaf(key) == str_split(key, ".")[Len(str_split(key, "."))]

\* the number of dots of a path
Depth(key) == str_count(key, ".")

\* a row of a root table starts with its id, a row of a child table with its foreign key
IdColumn(key) == IF Depth(key) = 0 THEN 1 ELSE 2

\* the surrogate ids of the rows appended to the buffer of `key`, in order
AssignedIds(key) ==
    [j \in 1..Len(dict_at(emitted, key)) |->
        StrToInt(row_value(dict_at(emitted, key)[j], IdColumn(key)))]

\* the foreign keys of the rows appended to the buffer of the child table `key`
AssignedFks(key) ==
    [j \in 1..Len(dict_at(emitted, key)) |->
        StrToInt(row_value(dict_at(emitted, key)[j], 1))]

RECURSIVE ChildrenOf(_, _, _)
\* the elements of the lists under `field` of the documents parents[j..], in order,
\* each with the ordinal of the document that holds it
ChildrenOf(parents, field, j) ==
    IF j > Len(parents) THEN <<>>
    ELSE (IF dict_get(parents[j].doc.v, field).t = "list"
          THEN [i \in 1..Len(dict_get(parents[j].doc.v, field).v) |->
                    [doc |-> dict_get(parents[j].doc.v, field).v[i], parent |-> j]]
          ELSE <<>>)
         \o ChildrenOf(parents, field, j + 1)

RECURSIVE Level(_)
\* the documents of the table `key` among the documents fed, in the order the
\* normalizer meets them, each with the ordinal of its parent document in the
\* parent's table (0 for the root)
Level(key) ==
    IF key = root THEN [j \in 1..Len(fed) |-> [doc |-> fed[j], parent |-> 0]]
    ELSE IF Depth(key) = 0 THEN <<>>
    ELSE ChildrenOf(Level(ParentKey(key)), Leaf(key), 1)

\* the values of a document for the fields of a mapping, as literals
Literals(mapping, doc) ==
    [i \in 1..Len(mapping.fields) |->
        prepare_value(dict_get(flatten(doc.v, <<>>, DefaultDelim), mapping.original[i]),
                      mapping.types[i]).v]

\* C1: within one root-table run the surrogate ids written into the rows of every
\* table of the group, in the order the rows are appended over all documents,
\* recursive calls and chunks, are seed+1, seed+2, ..., seed+n, seed being ids[T]
\* as initialize set it, and ids[T] is the last id assigned
C1_IdsGapFree ==
    Running =>
        \A k \in 1..Len(mappings) :
            /\ \A j \in 1..Len(AssignedIds(mappings[k][1])) :
                    AssignedIds(mappings[k][1])[j] = dict_at(seeds, mappings[k][1]) + j
            /\ dict_at(ids, mappings[k][1])
                    = dict_at(seeds, mappings[k][1]) + Len(AssignedIds(mappings[k][1]))

\* a run of several chunks has appended rows to a child table whose counter was
\* seeded above 0
C1_Witness ==
    /\ pc = "delete"
    /\ limit < total
    /\ \E k \in 1..Len(mappings) :
            /\ Depth(mappings[k][1]) > 0
            /\ dict_at(seeds, mappings[k][1]) > 0
            /\ Len(dict_at(emitted, mappings[k][1])) > 2

\* C2: every row appended to a child table's buffer starts with the surrogate id
\* assigned to the row of the parent document whose list holds the child document,
\* at every depth and for every seed; a row of the root table is its id followed by
\* the values of its fields, with no foreign key
C2_ForeignKeyIsParentId ==
    Running =>
        \A k \in 1..Len(mappings) :
            /\ Len(dict_at(emitted, mappings[k][1])) = Len(Level(mappings[k][1]))
            /\ \A j \in 1..Len(Level(mappings[k][1])) :
                IF mappings[k][1] = root
                THEN dict_at(emitted, root)[j]
                        = row_literal(<<IntToStr(dict_at(seeds, root) + j)>>
                                      \o Literals(mappings[k][2], Level(root)[j].doc))
                ELSE AssignedFks(mappings[k][1])[j]
                        = dict_at(seeds, ParentKey(mappings[k][1]))
                          + Level(mappings[k][1])[j].parent

\* rows of a table of depth 2 were appended under parents whose counter was seeded
\* above 0, the last of them under a parent that is not the first
C2_Witness ==
    /\ pc = "delete"
    /\ \E k \in 1..Len(mappings) :
            /\ Depth(mappings[k][1]) = 2
            /\ dict_at(seeds, ParentKey(mappings[k][1])) > 0
            /\ Len(Level(mappings[k][1])) > 1
            /\ Level(mappings[k][1])[Len(Level(mappings[k][1]))].parent > 1

RECURSIVE KidsBefore(_, _)
\* the number of children of the documents of the source rows before the i-th
KidsBefore(rows, i) ==
    IF i <= 1 THEN 0
    ELSE KidsBefore(rows, i - 1) + Len(dict_get(dict_get(rows[i - 1], S_d).v, S_c).v)

\* C3: end to end in full-refresh mode, for every chunk size: the two-level mapping
\* over N source rows, the i-th with a children array of K_i elements (K_i = K for
\* all i in particular), leaves exactly N rows in the root table, with ids 1..N in
\* source order, and the sum of the K_i rows in the child table, the j-th child of
\* the i-th row with foreign key i and id K_1 + ... + K_(i-1) + j  (= (i-1)*K + j)
C3_EndToEnd ==
    (/\ pc = "success"
     /\ ~Truthy(self.incremental)
     /\ self.preprocessing = PyNone
     /\ multiple
     /\ Len(self.mapping) = 2
     /\ dict_has(source, <<"r">>)) =>
        /\ Len(dict_at(dest, <<"R">>).rows) = Len(dict_at(source, <<"r">>))
        /\ \A i \in 1..Len(dict_at(source, <<"r">>)) :
                StrToInt(row_value(dict_at(dest, <<"R">>).rows[i], 1)) = i
        /\ Len(dict_at(dest, <<"C">>).rows)
                = KidsBefore(dict_at(source, <<"r">>), Len(dict_at(source, <<"r">>)) + 1)
        /\ \A i \in 1..Len(dict_at(source, <<"r">>)) :
                \A j \in 1..(KidsBefore(dict_at(source, <<"r">>), i + 1)
                             - KidsBefore(dict_at(source, <<"r">>), i)) :
                    /\ StrToInt(row_value(
                            dict_at(dest, <<"C">>).rows[KidsBefore(dict_at(source, <<"r">>), i) + j],
                            1)) = i
                    /\ StrToInt(row_value(
                            dict_at(dest, <<"C">>).rows[KidsBefore(dict_at(source, <<"r">>), i) + j],
                            2)) = KidsBefore(dict_at(source, <<"r">>), i) + j

\* a full refresh of MaxRows source rows of MaxKids children each, one row per chunk,
\* has ended
C3_Witness ==
    /\ pc = "success"
    /\ ~Truthy(self.incremental)
    /\ self.preprocessing = PyNone
    /\ multiple
    /\ Len(self.mapping) = 2
    /\ limit = 1
    /\ dict_has(source, <<"r">>)
    /\ Len(dict_at(source, <<"r">>)) = MaxRows
    /\ \A i \in 1..MaxRows :
            Len(dict_get(dict_get(dict_at(source, <<"r">>)[i], S_d).v, S_c).v) = MaxKids
    /\ Len(dict_at(dest, <<"C">>).rows) = MaxRows * MaxKids

\* the primary keys of the rows the destination table of the k-th key held when
\* initialize ran
StoredKeys(k) ==
    IF dict_has(stored, mappings[k][2].destination)
    THEN [j \in 1..Len(dict_at(stored, mappings[k][2].destination).rows) |->
            StrToInt(row_value(dict_at(stored, mappings[k][2].destination).rows[j],
                               IdColumn(mappings[k][1])))]
    ELSE <<>>

\* no row the destination held when initialize ran has been removed or changed
StoredRowsKept ==
    \A t \in 1..Len(stored) :
        /\ dict_has(dest, stored[t][1])
        /\ Len(stored[t][2].rows) <= Len(dict_at(dest, stored[t][1]).rows)
        /\ SubSeq(dict_at(dest, stored[t][1]).rows, 1, Len(stored[t][2].rows))
                = stored[t][2].rows

\* C4: in incremental mode, for every table of the root's group, every id
\* assigned during the run is greater than every primary key the destination table
\* held when initialize ran, and no row that existed before the run is removed
C4_IdsAboveStored ==
    Truthy(self.incremental) =>
        /\ StoredRowsKept
        /\ Running =>
            \A k \in 1..Len(mappings) :
                \A i \in 1..Len(AssignedIds(mappings[k][1])) :
                    \A j \in 1..Len(StoredKeys(k)) :
                        AssignedIds(mappings[k][1])[i] > StoredKeys(k)[j]

\* C4 for the tables whose max-primary-key probe did not fail: every id assigned
\* during the run is greater than every primary key the table held, and no row that
\* existed before the run is removed
C4_IdsAboveProbed ==
    Truthy(self.incremental) =>
        /\ StoredRowsKept
        /\ Running =>
            \A k \in 1..Len(mappings) :
                ~InList(mappings[k][1], warned) =>
                    \A i \in 1..Len(AssignedIds(mappings[k][1])) :
                        \A j \in 1..Len(StoredKeys(k)) :
                            AssignedIds(mappings[k][1])[i] > StoredKeys(k)[j]

\* an incremental run has appended rows to a child table that held rows before it
\* and whose probe succeeded
C4_Witness ==
    /\ pc = "delete"
    /\ Truthy(self.incremental)
    /\ \E k \in 1..Len(mappings) :
            /\ Depth(mappings[k][1]) > 0
            /\ ~InList(mappings[k][1], warned)
            /\ Len(StoredKeys(k)) > 1
            /\ Len(AssignedIds(mappings[k][1])) > 1

\* C5: the DDL batch of initialize in full-refresh mode holds, for every table of the
\* root's group, a DROP of the table before each CREATE of it, and the table's counter
\* is seeded at 0; in incremental mode the batch holds no DROP
C5_DropBeforeCreate ==
    Running =>
        IF Truthy(self.incremental)
        THEN \A q \in 1..Len(queries) : queries[q].kind # "DROP"
        ELSE \A k \in 1..Len(mappings) :
                /\ dict_at(seeds, mappings[k][1]) = 0
                /\ \E q \in 1..Len(queries) :
                        /\ queries[q].kind = "CREATE"
                        /\ queries[q].table = mappings[k][2].destination
                /\ \A q \in 1..Len(queries) :
                        (queries[q].kind = "CREATE"
                         /\ queries[q].table = mappings[k][2].destination) =>
                            \E d \in 1..(q - 1) :
                                queries[d] = DropTable(mappings[k][2].destination)

\* a full refresh of a group of three tables that exist from an earlier run
C5_Witness ==
    /\ pc = "count"
    /\ ~Truthy(self.incremental)
    /\ Len(mappings) = 3
    /\ Len(queries) = 6
    /\ \A k \in 1..Len(mappings) : dict_has(stored, mappings[k][2].destination)

\* C6: in incremental mode a failed max-primary-key probe seeds the table's counter at
\* 0, the remaining tables of the group are still processed (seeded and created), and
\* the probe's exception does not leave initialize
C6_ProbeFailureSeedsZero ==
    Truthy(self.incremental) =>
        /\ Running =>
            \A k \in 1..Len(mappings) :
                /\ dict_has(seeds, mappings[k][1])
                /\ InList(mappings[k][1], warned) => dict_at(seeds, mappings[k][1]) = 0
                /\ \E q \in 1..Len(queries) :
                        /\ queries[q].kind = "CREATE"
                        /\ queries[q].table = mappings[k][2].destination
        /\ (pc = "failed" /\ error \in {"ProgrammingError", "OperationalError"}) =>
                io[Len(io)].hook = "source"

\* the probe of a table failed, a later table of the group was seeded from its rows
C6_Witness ==
    /\ pc = "count"
    /\ Truthy(self.incremental)
    /\ \E i \in 1..Len(mappings) :
            /\ InList(mappings[i][1], warned)
            /\ dict_at(seeds, mappings[i][1]) = 0
            /\ \E j \in (i + 1)..Len(mappings) : dict_at(seeds, mappings[j][1]) > 0

\* C7: the primary-key column of a table is the configured primary key name when
\* short-key mode is on, and <leaf of the table path><delim><primary key name> when the
\* operator was constructed with primary_key_short=False; the foreign-key column of a
\* non-root table is <destination table of the parent><delim><primary key name>, and
\* a root table has none
C7_KeyNaming ==
    Running =>
        \A k \in 1..Len(mappings) :
            /\ dict_at(relations, mappings[k][1])[2]
                    = IF kwargs.primary_key_short.t = "bool" /\ ~kwargs.primary_key_short.v
                      THEN Leaf(mappings[k][1]) \o self.primary_key_delim.v
                           \o self.primary_key_name.v
                      ELSE self.primary_key_name.v
            /\ dict_at(relations, mappings[k][1])[1]
                    = IF Depth(mappings[k][1]) = 0 THEN PyNone
                      ELSE PyStr(dict_at(mappings, ParentKey(mappings[k][1])).destination
                                 \o self.primary_key_delim.v \o self.primary_key_name.v)

\* a table entry of the declared shape: one destination key, whose value maps every
\* source field to one (column, type) pair
WellFormed(translation) ==
    /\ translation.t = "dict"
    /\ Len(translation.v) = 1
    /\ translation.v[1][2].t = "dict"
    /\ \A i \in 1..Len(translation.v[1][2].v) :
            /\ translation.v[1][2].v[i][2].t = "dict"
            /\ Len(translation.v[1][2].v[i][2].v) = 1

\* C8: MappingElements raises, instead of returning a descriptor, whenever the table
\* entry does not have exactly one destination key or a field entry does not have
\* exactly one (column, type) pair
C8_MalformedEntryRejected ==
    (arg.f = "MappingElements" /\ ret # PyNone /\ ~WellFormed(arg.translation)) =>
        IsRaise(ret)

\* C9: with a malformed table entry anywhere in the specification, execute issues no
\* database call (no DDL, count, fetch or insert for any root) and does not succeed
C9_NoIoBeforeConfigurationError ==
    (\E i \in 1..Len(self.mapping) : ~WellFormed(self.mapping[i][2])) =>
        (io = <<>> /\ pc # "success")

\* C10: prepare_value runs the body of at most one of its rules, so no rule processes
\* the result of another; True becomes the bare word true, None becomes NULL, and
\* O'Brien becomes 'O''Brien'
C10_OneRuleFires ==
    (arg.f = "prepare_value" /\ ret # PyNone) =>
        /\ Len(ret.fired) <= 1
        /\ (arg.value.t = "bool" /\ arg.value.v /\ arg.cast = S_boolean) =>
                (ret.val.t = "str" /\ ret.val.v = <<"t", "r", "u", "e">>)
        /\ arg.value.t = "None" => (ret.val.t = "str" /\ ret.val.v = S_NULL)
        /\ (arg.value.t = "str" /\ arg.value.v = S_OBrien /\ arg.cast = S_varchar) =>
                (ret.val.t = "str"
                 /\ ret.val.v = <<"'", "O", "'", "'", "B", "r", "i", "e", "n", "'">>)

\* C11: for a field declared datetime, prepare_value returns a literal and does not
\* raise for every non-empty value: a datetime instance gives the text
\* YYYY-MM-DD HH:MM:SS, a plain string keeps its text, only quoted
C11_DatetimeLiteral ==
    (arg.f = "prepare_value" /\ ret # PyNone /\ arg.cast = S_datetime /\ Truthy(arg.value)) =>
        /\ ~IsRaise(ret.val)
        /\ arg.value.t = "datetime" =>
                (ret.val.t = "str" /\ Contains(ret.val.v, strftime_seconds(arg.value.v)))
        /\ arg.value.t = "str" =>
                (ret.val.t = "str" /\ ret.val.v = quote_text(arg.value.v))

\* the declared field entries of a table entry: (source key, {column: type}) pairs
Declared(translation) == translation.v[1][2].v

\* the lists of the descriptor m follow the field entries of the table entry it was
\* built from, one element each per entry and in their order
Aligned(m, translation) ==
    /\ Len(m.original) = Len(Declared(translation))
    /\ Len(m.fields) = Len(Declared(translation))
    /\ Len(m.types) = Len(Declared(translation))
    /\ Len(m.definition) = Len(Declared(translation))
    /\ \A i \in 1..Len(Declared(translation)) :
            /\ m.original[i] = Declared(translation)[i][1]
            /\ Len(Declared(translation)[i][2].v) = 1 =>
                    /\ m.fields[i] = Declared(translation)[i][2].v[1][1]
                    /\ m.types[i] = str_lower(Declared(translation)[i][2].v[1][2].v)
                    /\ m.definition[i] = Declared(translation)[i][2].v[1][1] \o <<" ">>
                                         \o Declared(translation)[i][2].v[1][2].v

\* C12: for every table entry MappingElements accepted, the lists fields, original,
\* types and definition have the length of the declared field entries, are
\* index-aligned and in declaration order, and stay so through every step of the
\* orchestrator and the normalizer
C12_ListsAligned ==
    \A k \in 1..Len(mappings) :
        \E e \in 1..Len(self.mapping) :
            /\ get_table(self.mapping[e][1]) = mappings[k][1]
            /\ Aligned(mappings[k][2], self.mapping[e][2])

\* the rows of a root were normalized and flushed with a descriptor of two fields of
\* different types
C12_Witness ==
    /\ pc = "delete"
    /\ Len(fed) > 1
    /\ \E k \in 1..Len(mappings) :
            /\ Len(mappings[k][2].fields) = 2
            /\ mappings[k][2].types[1] # mappings[k][2].types[2]
            /\ Len(dict_at(dest, mappings[k][2].destination).rows) > 1

\* the declared key is the path of the root r or of a dotted descendant of r
Under(key, r) ==
    \/ get_table(key) = r
    \/ StartsAt(get_table(key), r \o <<".">>, 1)

\* the roots whose mapping group holds the e-th declared key
GroupsOf(e) ==
    {i \in 1..Len(roots) :
        InList(self.mapping[e][1], dict_keys(execute_filtered(self.mapping, roots[i])))}

\* C13: the mapping groups partition the declared table paths by root: every declared
\* path is in the group of exactly one root, the root that is the path itself or its
\* dotted ancestor, so the group of the root in progress holds only its own paths
C13_GroupsPartition ==
    pc # "idle" =>
        /\ \A e \in 1..Len(self.mapping) :
                /\ Cardinality(GroupsOf(e)) = 1
                /\ \A i \in GroupsOf(e) : Under(self.mapping[e][1], roots[i])
        /\ pc \in {"initialize", "count", "fetch", "flush", "delete"} =>
                \A k \in 1..Len(mappings) : Under(mappings[k][1], root)

\* the destination tables declared for the root r and its dotted descendants
OwnTables(r) ==
    {self.mapping[e][2].v[1][1] :
        e \in {x \in 1..Len(self.mapping) : Under(self.mapping[x][1], r)}}

\* C14: processing a root R touches only the tables of R and of its descendants: the
\* statements of initialize target only those tables, every other table is as
\* initialize found it, and at the end of a full-refresh execute the table of every
\* root holds one row per source row of that root
C14_RootTouchesOwnTables ==
    (/\ \A e \in 1..Len(self.mapping) : WellFormed(self.mapping[e][2])
     /\ ~Truthy(self.incremental)
     /\ self.preprocessing = PyNone) =>
        /\ Running =>
            /\ \A q \in 1..Len(queries) : queries[q].table \in OwnTables(root)
            /\ \A t \in 1..Len(stored) :
                    stored[t][1] \notin OwnTables(root) =>
                        /\ dict_has(dest, stored[t][1])
                        /\ dict_at(dest, stored[t][1]) = stored[t][2]
        /\ pc = "success" =>
            \A i \in 1..Len(roots) :
                \A e \in 1..Len(self.mapping) :
                    get_table(self.mapping[e][1]) = roots[i] =>
                        /\ dict_has(dest, self.mapping[e][2].v[1][1])
                        /\ Len(dict_at(dest, self.mapping[e][2].v[1][1]).rows)
                                = Len(dict_at(source, roots[i]))

\* the positions in the log of the count queries of the root in progress
CountCalls ==
    {i \in 1..Len(io) :
        io[i].hook = "source" /\ io[i].call = "get_first" /\ io[i].arg = root}

\* the fetches of the root in progress, in the order they were issued
Fetches ==
    select_where(io, {i \in 1..Len(io) :
                        /\ \A c \in CountCalls : c < i
                        /\ io[i].hook = "source"
                        /\ io[i].call = "get_records"}, 1)

\* the inserts of the root in progress
Inserts ==
    select_where(io, {i \in 1..Len(io) :
                        /\ \A c \in CountCalls : c < i
                        /\ io[i].hook = "destination"
                        /\ io[i].call \in {"execute", "insert_rows"}}, 1)

\* C15: for a root of `total` source rows and page size L >= 1 there is exactly one
\* count query, the fetches have limit L and the offsets 0, L, 2L, ... in this order,
\* all smaller than total, and there are ceil(total / L) of them when the loop ends;
\* with total = 0 there is no fetch and no insert; after the loop the counters,
\* buffers and relations are discarded
C15_Pagination ==
    /\ pc \in {"fetch", "flush", "delete"} =>
        /\ Cardinality(CountCalls) = 1
        /\ \A i \in 1..Len(Fetches) :
                /\ Fetches[i].arg.limit = limit
                /\ Fetches[i].arg.offset = (i - 1) * limit
                /\ Fetches[i].arg.offset < total
        /\ pc = "delete" => Len(Fetches) = (total + limit - 1) \div limit
        /\ total = 0 => (Fetches = <<>> /\ Inserts = <<>>)
    /\ (pc = "success" \/ (pc = "discover" /\ root_i > 1)) =>
        (~bound /\ ids = <<>> /\ buffers = <<>> /\ relations = <<>>)

\* the loop over the chunks of a root ended after several fetches
C15_Witness ==
    /\ pc = "delete"
    /\ limit < total
    /\ Len(Fetches) = MaxRows
    /\ Fetches[MaxRows].arg.offset = (MaxRows - 1) * limit
    /\ Inserts # <<>>

\* the loop over the chunks of a root of no source row ended
C15_WitnessEmpty ==
    /\ pc = "delete"
    /\ total = 0
    /\ Cardinality(CountCalls) = 1

\* the buffer of every table of the group exists and is empty
BuffersEmpty ==
    /\ \A k \in 1..Len(mappings) : dict_has(buffers, mappings[k][1])
    /\ \A b \in 1..Len(buffers) : buffers[b][2] = <<>>

\* C16: when the flush of a chunk has completed, the buffer of every table of the
\* group is empty, on the multiple-values path and on the insert_rows path, whether or
\* not the table had rows in the chunk; so every chunk is normalized into empty
\* buffers; during the flush the buffers of the tables already flushed are empty
C16_BuffersEmptyAfterFlush ==
    /\ pc = "flush" =>
        \A k \in 1..Len(mappings) :
            k < flush_k => dict_at(buffers, mappings[k][1]) = <<>>
    /\ (pc = "flush" /\ flush_k > Len(mappings)) => BuffersEmpty
    /\ pc \in {"fetch", "delete"} => BuffersEmpty

\* the flush of a chunk after the first has completed on the multiple-values path: one
\* table of the group had rows in it and another had none
C16_Witness ==
    /\ pc = "flush"
    /\ flush_k > Len(mappings)
    /\ multiple
    /\ offset > 0
    /\ BuffersEmpty
    /\ io[Len(io)].call = "execute"
    /\ io[Len(io) - 1].call = "get_records"
    /\ Len(mappings) > 1

\* the flush of a chunk has completed on the insert_rows path: the last table had rows
\* in the chunk, an earlier one had none
C16_WitnessRowWise ==
    /\ pc = "flush"
    /\ flush_k > Len(mappings)
    /\ ~multiple
    /\ BuffersEmpty
    /\ Len(mappings) > 1
    /\ io[Len(io)].call = "insert_rows"
    /\ io[Len(io)].arg.rows > 0
    /\ io[Len(io) - 1].call = "insert_rows"
    /\ io[Len(io) - 1].arg.rows > 0
    /\ io[Len(io) - 2].call = "insert_rows"
    /\ io[Len(io) - 2].arg.rows = 0

\* the rows the destination table of the k-th key held when the DDL batch of
\* initialize had run: none after DROP and CREATE, the rows it had in incremental mode
Kept(k) ==
    IF Truthy(self.incremental) /\ dict_has(stored, mappings[k][2].destination)
    THEN dict_at(stored, mappings[k][2].destination).rows
    ELSE <<>>

\* the rows of the k-th key that were handed to the destination during this run
Handed(k) ==
    SubSeq(dict_at(dest, mappings[k][2].destination).rows, Len(Kept(k)) + 1,
           Len(dict_at(dest, mappings[k][2].destination).rows))

\* C17: on a run without error every row the normalizer appended to a buffer is
\* handed to the destination exactly once, in the flush of its chunk and in the order
\* of appending: at every step the rows handed so far followed by the rows still in
\* the buffer are the rows appended so far, and between chunks and at the end the
\* rows handed are exactly the rows appended
C17_RowsHandedOnce ==
    pc \in {"fetch", "flush", "delete", "success"} =>
        \A k \in 1..Len(mappings) :
            /\ dict_has(dest, mappings[k][2].destination)
            /\ Len(Kept(k)) <= Len(dict_at(dest, mappings[k][2].destination).rows)
            /\ Handed(k) \o (IF pc = "flush" THEN dict_at(buffers, mappings[k][1]) ELSE <<>>)
                    = dict_at(emitted, mappings[k][1])

\* an incremental execute of several chunks has ended: a child table that held rows
\* before the run received more than two rows
C17_Witness ==
    /\ pc = "success"
    /\ limit < total
    /\ \E k \in 1..Len(mappings) :
            /\ Depth(mappings[k][1]) > 0
            /\ Len(Kept(k)) > 0
            /\ Len(dict_at(emitted, mappings[k][1])) > 2
            /\ Handed(k) = dict_at(emitted, mappings[k][1])

\* what a logged database call is: the max-primary-key probe and the DDL batch of
\* initialize, the count query, the fetch of a chunk, the insert of a table, the commit
Kind(e) ==
    CASE e.hook = "destination" /\ e.call = "get_first" -> "probe"
      [] e.hook = "destination" /\ e.call = "run" -> "run"
      [] e.hook = "source" /\ e.call = "get_first" -> "count"
      [] e.hook = "source" /\ e.call = "get_records" -> "fetch"
      [] e.hook = "destination" /\ e.call \in {"execute", "insert_rows"} -> "insert"
      [] e.hook = "destination" /\ e.call = "commit" -> "commit"

\* the calls that may come right after a call of kind a
Successors(a) ==
    CASE a = "probe" -> {"probe", "run"}
      [] a = "run" -> {"count"}
      [] a = "count" -> {"fetch", "probe", "run"}
      [] a = "fetch" -> IF multiple THEN {"insert", "commit"} ELSE {"insert"}
      [] a = "insert" -> IF multiple THEN {"insert", "commit"}
                         ELSE {"insert", "fetch", "probe", "run"}
      [] a = "commit" -> {"fetch", "probe", "run"}

\* the number of calls of a kind among the first n calls logged
Logged(kind, n) == Cardinality({i \in 1..n : Kind(io[i]) = kind})

\* the destination tables of the group of the r-th root
GroupTables(r) ==
    {self.mapping[e][2].v[1][1] :
        e \in {x \in 1..Len(self.mapping) : Contains(self.mapping[x][1], roots[r])}}

\* C18: for each root the steps are Initialize, Paginate, Done in this order: the DDL
\* batch runs once and is directly followed by the count query, every insert comes
\* after the DDL batch of its own root, a chunk is fetched only when the chunk before
\* it is flushed for every table, and the next root is initialized only after the last
\* flush of the root before it and after its counters, buffers and relations are gone
C18_StepOrder ==
    /\ Len(io) > 0 => Kind(io[1]) \in {"probe", "run"}
    /\ \A i \in 1..(Len(io) - 1) : Kind(io[i + 1]) \in Successors(Kind(io[i]))
    /\ \A i \in 1..Len(io) :
            Kind(io[i]) = "insert" =>
                /\ Logged("run", i) \in 1..Len(roots)
                /\ Logged("count", i) = Logged("run", i)
                /\ io[i].arg.table \in GroupTables(Logged("run", i))
    /\ pc \in {"count", "fetch", "flush", "delete"} =>
            /\ Logged("run", Len(io)) = root_i
            /\ Logged("count", Len(io)) = IF pc = "count" THEN root_i - 1 ELSE root_i
    /\ pc = "success" =>
            /\ Logged("run", Len(io)) = Len(roots)
            /\ Logged("count", Len(io)) = Len(roots)
    /\ ((pc = "fetch" /\ offset > 0) \/ (pc = "delete" /\ total > 0)) =>
            flush_k = Len(mappings) + 1
    /\ (pc \in {"discover", "initialize"} /\ root_i > 1) =>
            /\ ~bound
            /\ Kind(io[Len(io)]) \in {"count", "insert", "commit"}
            /\ Logged("run", Len(io)) = root_i - 1

\* the second root of an execute is in its second chunk
C18_Witness ==
    /\ pc = "flush"
    /\ root_i = 2
    /\ offset > 0
    /\ Logged("run", Len(io)) = 2
    /\ Logged("fetch", Len(io)) > 3

\* the appends logged for the table `key`, in the order they were made
AppendsOf(order, key) ==
    select_where(order, {p \in 1..Len(order) : order[p].key = key}, 1)

\* C19: the normalizer appends depth-first in document order: the rows of the root
\* buffer are those of the documents in their order, the rows of a child buffer under
\* one parent those of the parent's list in its order (the documents checked number
\* their fields x, y, z by position); along the buffer of every table the ids
\* increase and, for a child table, the foreign keys do not decrease; every child row is appended after the row of each earlier sibling of its
\* parent document and before the row of its own parent document, so the rows below
\* one parent document are all appended before any row of or below its next sibling
C19_DepthFirstOrder ==
    (arg.f = "normalize" /\ ret # PyNone) =>
        /\ ret.err = "none"
        /\ \A k \in 1..Len(ret.buffers) :
                /\ Len(AppendsOf(ret.order, ret.buffers[k][1])) = Len(ret.buffers[k][2])
                /\ \A j \in 1..Len(ret.buffers[k][2]) :
                        /\ StrToInt(row_value(ret.buffers[k][2][j], IdColumn(ret.buffers[k][1])))
                                = AppendsOf(ret.order, ret.buffers[k][1])[j].id
                        /\ Depth(ret.buffers[k][1]) > 0 =>
                                StrToInt(row_value(ret.buffers[k][2][j], 1))
                                    = AppendsOf(ret.order, ret.buffers[k][1])[j].fk
        /\ \A k \in 1..Len(ret.buffers) :
                \A i \in 1..Len(ret.buffers[k][2]) : \A j \in 1..Len(ret.buffers[k][2]) :
                    IF Depth(ret.buffers[k][1]) = 0
                    THEN StrToInt(row_value(ret.buffers[k][2][j], 2)) = j
                    ELSE (/\ i < j
                          /\ row_value(ret.buffers[k][2][i], 1) = row_value(ret.buffers[k][2][j], 1)) =>
                            StrToInt(row_value(ret.buffers[k][2][i], 3))
                                < StrToInt(row_value(ret.buffers[k][2][j], 3))
        /\ \A p \in 1..Len(ret.order) : \A q \in 1..Len(ret.order) :
                /\ (p < q /\ ret.order[p].key = ret.order[q].key) =>
                        /\ ret.order[p].id < ret.order[q].id
                        /\ ret.order[p].fk <= ret.order[q].fk
                /\ (Depth(ret.order[q].key) > 0
                    /\ ret.order[p].key = ParentKey(ret.order[q].key)) =>
                        IF ret.order[p].id < ret.order[q].fk THEN p < q ELSE q < p

\* a call on two documents with MaxKids children each, every child with a child of its
\* own: rows of three tables were appended, the counters starting above 0
C19_Witness ==
    /\ arg.f = "normalize"
    /\ ret # PyNone
    /\ Len(arg.documents) = MaxRows
    /\ arg.mem.ids[1][2] > 0
    /\ Len(ret.order) = MaxRows * (1 + MaxKids * (1 + MaxGrand))
    /\ ret.order[Len(ret.order)].key = <<"r">>

\* xs is the beginning of ys
IsPrefix(xs, ys) == Len(xs) <= Len(ys) /\ SubSeq(ys, 1, Len(xs)) = xs

\* C20: a write that fails during the flush of a chunk ends execute with its
\* exception and nothing is issued after it (no other table of the chunk, no later
\* chunk, no later root); the program undoes nothing: the failing table and the
\* tables after it keep their rows of the chunk in the buffers and not in the
\* destination, on the insert_rows path every table flushed before holds all its rows,
\* and on the multiple-values path the tables flushed before hold them unless the
\* connection closed without commit dropped them
C20_WriteFailureIsFatal ==
    (pc = "failed" /\ error = "DatabaseError") =>
        /\ bound
        /\ flush_k \in 1..Len(mappings)
        /\ Kind(io[Len(io)]) = "insert"
        /\ io[Len(io)].arg.table = mappings[flush_k][2].destination
        /\ \A k \in 1..Len(mappings) :
                /\ dict_has(dest, mappings[k][2].destination)
                /\ Len(Kept(k)) <= Len(dict_at(dest, mappings[k][2].destination).rows)
                /\ IsPrefix(Handed(k), dict_at(emitted, mappings[k][1]))
                /\ k >= flush_k =>
                        Handed(k) \o dict_at(buffers, mappings[k][1])
                            = dict_at(emitted, mappings[k][1])
                /\ (k < flush_k /\ ~multiple) =>
                        Handed(k) = dict_at(emitted, mappings[k][1])

\* the write of a table failed in the first chunk of a full refresh: an earlier
\* table of the group holds its rows of the chunk, the failing table holds none
PartialChunk ==
    /\ pc = "failed"
    /\ error = "DatabaseError"
    /\ ~Truthy(self.incremental)
    /\ offset = 0
    /\ flush_k > 1
    /\ Len(dict_at(dest, mappings[1][2].destination).rows) > 0
    /\ dict_at(dest, mappings[1][2].destination).rows = dict_at(emitted, mappings[1][1])
    /\ dict_at(dest, mappings[flush_k][2].destination).rows = <<>>
    /\ Len(dict_at(buffers, mappings[flush_k][1])) > 0

\* the partial state on the multiple-values path, the INSERTs executed before the
\* failure kept
C20_Witness == PartialChunk /\ multiple

\* the partial state on the insert_rows path, each table committed by its own call
C20_WitnessRowWise == PartialChunk /\ ~multiple

(***************************************************************************)
(* The shape of a row literal against the column lists of its table.       *)
(***************************************************************************)

\* the relation of the k-th table of the group has a foreign-key column
HasForeignKey(k) == dict_at(relations, mappings[k][1])[1] # PyNone

\* the column list of the INSERT of the k-th table of the group
InsertColumns(k) == insert_fields(dict_at(relations, mappings[k][1]), mappings[k][2])

\* the values of the j-th row appended to the k-th table of the group: the id of the
\* parent row when the relation has a foreign-key column, the row's own id, one
\* literal per mapped field in declaration order
RowValues(k, j) ==
    (IF HasForeignKey(k)
     THEN <<IntToStr(dict_at(seeds, ParentKey(mappings[k][1]))
                     + Level(mappings[k][1])[j].parent)>>
     ELSE <<>>)
    \o <<IntToStr(dict_at(seeds, mappings[k][1]) + j)>>
    \o Literals(mappings[k][2], Level(mappings[k][1])[j].doc)

\* C21: every row literal in a table's buffer has the same number and order of
\* values as the column list of that table's INSERT and CREATE: the foreign key first
\* if and only if the table's relation has a foreign-key column (the table is not a
\* root), then the row's own id, then one value per mapped field in declaration order
C21_RowMatchesColumns ==
    Running =>
        \A k \in 1..Len(mappings) :
            /\ HasForeignKey(k) <=> Depth(mappings[k][1]) > 0
            /\ InsertColumns(k)
                    = (IF HasForeignKey(k)
                       THEN <<dict_at(relations, mappings[k][1])[1].v>> ELSE <<>>)
                      \o <<dict_at(relations, mappings[k][1])[2]>>
                      \o mappings[k][2].fields
            /\ \A q \in 1..Len(queries) :
                    (queries[q].kind = "CREATE"
                     /\ queries[q].table = mappings[k][2].destination) =>
                        definition_columns(queries[q].definition) = InsertColumns(k)
            /\ \A i \in 1..Len(Inserts) :
                    (Inserts[i].call = "execute"
                     /\ Inserts[i].arg.table = mappings[k][2].destination) =>
                        Inserts[i].arg.fields = InsertColumns(k)
            /\ Len(dict_at(emitted, mappings[k][1])) = Len(Level(mappings[k][1]))
            /\ \A j \in 1..Len(Level(mappings[k][1])) :
                    /\ dict_at(emitted, mappings[k][1])[j] = row_literal(RowValues(k, j))
                    /\ Len(RowValues(k, j)) = Len(InsertColumns(k))

\* a root table and a table of depth 2 with two mapped fields both hold rows that
\* were written by an INSERT with its column list
C21_Witness ==
    /\ pc = "delete"
    /\ multiple
    /\ \E k \in 1..Len(mappings) :
            /\ ~HasForeignKey(k)
            /\ Len(dict_at(emitted, mappings[k][1])) > 1
    /\ \E k \in 1..Len(mappings) :
            /\ Depth(mappings[k][1]) = 2
            /\ HasForeignKey(k)
            /\ Len(mappings[k][2].fields) > 0
            /\ Len(dict_at(emitted, mappings[k][1])) > 1
            /\ \E i \in 1..Len(Inserts) :
                    /\ Inserts[i].arg.table = mappings[k][2].destination
                    /\ Len(Inserts[i].arg.fields) = 2 + Len(mappings[k][2].fields)

====
